---- MODULE Spec2Model ----
(***************************************************************************)
(* Trajectory-to-network attribution (src/5/task5_route_analysis.py) and  *)
(* matching-quality scoring (src/task6.py).                               *)
(*                                                                         *)
(* Numbers.  The Python code computes with binary floating point.  The    *)
(* model computes with exact rationals <<num, den>> in lowest terms, so   *)
(* sums and quotients are the exact values the floats approximate;        *)
(* rounding error of the float operations is outside the model.           *)
(***************************************************************************)
EXTENDS Integers, Sequences, FiniteSets, TLC

VARIABLES
    \* ---- task5_route_analysis.main ----
    id2len,       \* dict edge id -> length_m (metres)
    id2time,      \* dict trip id -> duration (seconds)
    nrows,        \* number of rows of the matched table iterated so far
    row,          \* loop variable r: the row being iterated
    freq,         \* dict edge id -> number of occurrences
    time_sum,     \* dict edge id -> accumulated attributed time (rational)
    time_count,   \* dict edge id -> number of attributions
    path_edges,   \* loop local: decoded path of the current row
    rid,          \* loop local: trip id of the current row
    total_time,   \* loop local: id2time.get(rid, None)
    total_len,    \* loop local: sum(lengths)
    mm,           \* history: the rows iterated so far, in order (SpecH only)
    \* ---- task6.identify_poor_matches ----
    threshold,    \* the configured Good threshold
    results,      \* list of per-trip result records
    gps_points,   \* loop local: fixes of the current trip
    matched_geom, \* loop local: resolved geometry of the current row
    locals,       \* locals of calculate_matching_quality before rounding
    entry,        \* the dict built for the current row
    \* ---- task5_route_analysis.parse_edge_seq, called on its own ----
    field,        \* the argument s of the call, None before the call
    decoded,      \* the list the call returned
    \* ---- parse_geom_safe, called on its own ----
    resolver,     \* which parse_geom_safe: "task6" or "post_stmatch_view"
    wkt_text,     \* the argument of the call, None before the call
    resolved,     \* what the call returned
    loads_calls,  \* the texts the call passed to wkt.loads, in order
    \* ---- one run of main, of task5 or of task6 ----
    prog,         \* "none", "task5" or "task6"
    pc,           \* where main is
    fault,        \* what is wrong with the input files of the run
    columns,      \* the column names of the matched table
    topk,         \* args.topk
    freq_df,      \* the frequency ranking, None before it is computed
    avg_df,       \* the average-time ranking, None before it is computed
    io,           \* the files read and written so far, in order
    poor_matches, \* task6: the rows of df_results with is_poor
    report        \* task6: the counts the summary prints, None before it

task5vars == <<id2len, id2time, nrows, row, freq, time_sum, time_count,
               path_edges, rid, total_time, total_len, mm>>
task6vars == <<threshold, results, gps_points, matched_geom, locals, entry>>
decodervars == <<field, decoded>>
resolvervars == <<resolver, wkt_text, resolved, loads_calls>>
runvars == <<prog, pc, fault, columns, topk, freq_df, avg_df, io,
             poor_matches, report>>
auxvars == <<decodervars, resolvervars, runvars>>
vars == <<task5vars, task6vars, auxvars>>

\* An optional value is a sequence of length at most one: None is Python's
\* None (also a NaN cell, and a loop local that was never assigned), Some(x)
\* is the value x.
None == <<>>
Some(x) == <<x>>
Val(o) == o[1]

--------------------------------------------------------------------------
(* Bounds of the model *)

\* Spec: number of matched rows the accumulation loop iterates
MaxRows == 2
\* Spec: number of edge ids in one matched path
MaxPathLen == 2
\* SpecH: number of rows of the matched table
MaxTableRows == 2
\* SpecH: number of edge ids in one matched path of the table
MaxTablePathLen == 2

--------------------------------------------------------------------------
(* Exact rationals *)

RECURSIVE GCD(_, _)
GCD(a, b) == IF b = 0 THEN a ELSE GCD(b, a % b)

Abs(x) == IF x < 0 THEN -x ELSE x

\* n/d in lowest terms with a positive denominator
Rat(n, d) ==
    LET s == IF d < 0 THEN -1 ELSE 1
        g == GCD(Abs(n), Abs(d))
    IN  <<(s * n) \div g, (s * d) \div g>>

RatInt(n) == <<n, 1>>
RatAdd(x, y) == Rat(x[1] * y[2] + y[1] * x[2], x[2] * y[2])
RatSub(x, y) == Rat(x[1] * y[2] - y[1] * x[2], x[2] * y[2])
RatMul(x, y) == Rat(x[1] * y[1], x[2] * y[2])
RatDiv(x, y) == Rat(x[1] * y[2], x[2] * y[1])
RatLe(x, y) == x[1] * y[2] <= y[1] * x[2]
RatLt(x, y) == x[1] * y[2] < y[1] * x[2]
RatMax(x, y) == IF RatLe(x, y) THEN y ELSE x

--------------------------------------------------------------------------
(* Python dicts: functions whose domain is the set of keys present *)

EmptyDict == <<>>
DictGet(d, k, default) == IF k \in DOMAIN d THEN d[k] ELSE default
DictPut(d, k, v) == [x \in (DOMAIN d) \cup {k} |-> IF x = k THEN v ELSE d[x]]

--------------------------------------------------------------------------
(* Input data of task5 *)

\* edge ids a matched path may name
EdgeIds == {1, 12}
\* The dicts id2len may be: edge id -> length in metres (gdfm.length is
\* >= 0).  Edge 1 is in every network, edge 12 in some; an edge may have
\* length zero.
Networks ==
    { [e \in {1} |-> 100],
      [e \in {1} |-> 0],
      [e \in {1, 12} |-> IF e = 1 THEN 100 ELSE 300],
      [e \in {1, 12} |-> IF e = 1 THEN 0 ELSE 300] }

\* POLYLINE column of the training csv: number of fixes of trip 0, 1, 2
TrainFixes == <<3, 1, 2>>
\* values of the id column of the matched table; None is a missing id (NaN),
\* 3 is an id with no row in the training csv
RowIds == {None, Some(0), Some(1), Some(2), Some(3)}

\* the characters of a cpath field, one string per character
Digits == {"0", "1", "2", "3", "4", "5", "6", "7", "8", "9"}

DigitVal(c) ==
    CASE c = "0" -> 0 [] c = "1" -> 1 [] c = "2" -> 2 [] c = "3" -> 3
      [] c = "4" -> 4 [] c = "5" -> 5 [] c = "6" -> 6 [] c = "7" -> 7
      [] c = "8" -> 8 [] c = "9" -> 9

\* decimal text of an edge id, as the map matcher writes it
EdgeText(e) == CASE e = 1 -> <<"1">> [] e = 12 -> <<"1", "2">>

\* the map matcher writes a path as its edge ids joined by commas;
\* an empty path is read back by pandas as NaN, which str() turns into "nan"
RECURSIVE JoinEdges(_)
JoinEdges(p) ==
    IF Len(p) = 1 THEN EdgeText(p[1])
    ELSE EdgeText(p[1]) \o <<",">> \o JoinEdges(Tail(p))

CpathText(p) == IF p = <<>> THEN <<"n", "a", "n">> ELSE JoinEdges(p)

PathsOver(E, maxlen) == UNION {[1..n -> E] : n \in 0..maxlen}

\* the rows a matched table may hold
Rows == [id : RowIds, cpath : {CpathText(p) : p \in PathsOver(EdgeIds, MaxPathLen)}]

\* SpecH keeps the whole table.  Its network has edge 1 alone, or edge 1 with
\* length zero and edge 12; its rows carry the id of trip 0 (30 s), of trip 2
\* (15 s), or none.
TableNetworks ==
    { [e \in {1} |-> 100],
      [e \in {1, 12} |-> IF e = 1 THEN 0 ELSE 300] }
TableRowIds == {None, Some(0), Some(2)}
TableRows == [id : TableRowIds,
              cpath : {CpathText(p) : p \in PathsOver(EdgeIds, MaxTablePathLen)}]

--------------------------------------------------------------------------
(* parse_edge_seq *)

\* the pattern \d in place of \d+: every digit is a run of its own
RunEnd_OneDigit(s, i) == i

\* last index of the run of digits of s that starts at i
RECURSIVE RunEnd(_, _)
RunEnd(s, i) ==
    IF i + 1 <= Len(s) /\ s[i + 1] \in Digits THEN RunEnd(s, i + 1) ELSE i

\* int() of the digits s[i..j]
RECURSIVE DigitsToInt(_, _, _)
DigitsToInt(s, i, j) ==
    IF j < i THEN 0 ELSE 10 * DigitsToInt(s, i, j - 1) + DigitVal(s[j])

\* re.findall(r"-?\d+", s) from position i, each match converted by int()
RECURSIVE FindAll(_, _)
FindAll(s, i) ==
    IF i > Len(s) THEN <<>>
    ELSE IF s[i] \in Digits
         THEN LET j == RunEnd(s, i)
              IN  <<DigitsToInt(s, i, j)>> \o FindAll(s, j + 1)
    ELSE IF s[i] = "-" /\ i + 1 <= Len(s) /\ s[i + 1] \in Digits
         THEN LET j == RunEnd(s, i + 1)
              IN  <<-DigitsToInt(s, i + 1, j)>> \o FindAll(s, j + 1)
    ELSE FindAll(s, i + 1)

IsBlank(s) == \A i \in 1..Len(s) : s[i] \in {" ", "\t", "\n"}

parse_edge_seq(s) == IF IsBlank(s) THEN <<>> ELSE FindAll(s, 1)

\* A Python value passed as s: a str with its characters, or a value that
\* is no str (a float NaN, an int).
Text(s) == [is_str |-> TRUE, chars |-> s]
NonText == [is_str |-> FALSE, chars |-> <<>>]

\* parse_edge_seq with `not isinstance(s, str)`: the call on any value
parse_edge_seq_arg(a) == IF ~a.is_str THEN <<>> ELSE parse_edge_seq(a.chars)

\* SpecP: number of characters of the field
MaxFieldLen == 4
\* the characters a field of SpecP is made of
FieldChars == {"1", "7", "-", ",", " "}
\* the form '[1,2,3]' of the comment in parse_edge_seq, with a repeated id
BracketedField ==
    <<"[", "1", "2", ",", " ", "7", ",", " ", "7", ",", " ", "3", "]">>
\* the values parse_edge_seq is called on in SpecP
Fields ==
    {NonText}
    \cup {Text(s) : s \in UNION {[1..n -> FieldChars] : n \in 0..MaxFieldLen}}
    \cup {Text(BracketedField), Text(<<"n", "a", "n">>), Text(<<"\t", "\n">>)}

\* parse_edge_seq has not been called
DecoderIdle ==
    /\ field = None
    /\ decoded = <<>>

\* parse_geom_safe has not been called
ResolverIdle ==
    /\ resolver = "task6"
    /\ wkt_text = None
    /\ resolved = None
    /\ loads_calls = <<>>

\* no run of main is modelled: the loops are entered directly
RunIdle ==
    /\ prog = "none"
    /\ pc = "loop"
    /\ fault = "none"
    /\ columns = {}
    /\ topk = 0
    /\ freq_df = None
    /\ avg_df = None
    /\ io = <<>>
    /\ poor_matches = <<>>
    /\ report = None

\* none of the functions called on their own has been called, and no run
\* of main is modelled
AuxIdle == DecoderIdle /\ ResolverIdle /\ RunIdle

--------------------------------------------------------------------------
(* build_id_time_dict *)

sample_interval_s == 15

\* the duration taken as n * sample_interval_s
build_id_time_dict_OffByOne(train, ids_needed) ==
    LET kept == {i \in 0..(Len(train) - 1) :
                    i \in ids_needed /\ train[i + 1] >= 2}
    IN  [i \in kept |-> train[i + 1] * 15]

\* rows of the training csv are numbered from 0; train[i + 1] is the number
\* of fixes of row i
build_id_time_dict(train, ids_needed) ==
    LET kept == {i \in 0..(Len(train) - 1) :
                    i \in ids_needed /\ train[i + 1] >= 2}
    IN  [i \in kept |-> (train[i + 1] - 1) * sample_interval_s]

--------------------------------------------------------------------------
(* One iteration of the accumulation loop of main *)

\* the loop run over set(path_edges): an edge counts once per path
RECURSIVE FreqLoop_OncePerPath(_, _, _)
FreqLoop_OncePerPath(f, path, i) ==
    IF i > Len(path) THEN f
    ELSE IF \E j \in 1..(i - 1) : path[j] = path[i]
         THEN FreqLoop_OncePerPath(f, path, i + 1)
    ELSE FreqLoop_OncePerPath(DictPut(f, path[i], DictGet(f, path[i], 0) + 1),
                              path, i + 1)

\* for e in path_edges: freq[e] = freq.get(e, 0) + 1
RECURSIVE FreqLoop(_, _, _)
FreqLoop(f, path, i) ==
    IF i > Len(path) THEN f
    ELSE FreqLoop(DictPut(f, path[i], DictGet(f, path[i], 0) + 1), path, i + 1)

\* lengths = [id2len.get(e, 0.0) for e in path_edges]
LengthsOf(lens, path) == [i \in 1..Len(path) |-> DictGet(lens, path[i], 0)]

RECURSIVE SumSeq(_)
SumSeq(s) == IF s = <<>> THEN 0 ELSE s[1] + SumSeq(Tail(s))

\* the quotient taken as an integer division
Dt_IntDiv(T, l, tl) == RatInt(T * (l \div tl))

\* the ratio taken upside down
Dt_Inverted(T, l, tl) == RatMul(RatInt(T), Rat(tl, l))

\* dt = total_time * (l / total_len)
Dt(T, l, tl) == RatMul(RatInt(T), Rat(l, tl))

\* the loop keeping a running mean in time_sum instead of a sum
RECURSIVE TimeLoop_RunningMean(_, _, _, _, _, _)
TimeLoop_RunningMean(acc, path, lengths, T, tl, i) ==
    IF i > Len(path) THEN acc
    ELSE IF lengths[i] <= 0
         THEN TimeLoop_RunningMean(acc, path, lengths, T, tl, i + 1)
    ELSE LET e == path[i]
             dt == RatMul(RatInt(T), Rat(lengths[i], tl))
         IN  TimeLoop_RunningMean(
                 [ts |-> DictPut(acc.ts, e,
                                 RatDiv(RatAdd(DictGet(acc.ts, e, dt), dt),
                                        RatInt(2))),
                  tc |-> DictPut(acc.tc, e, DictGet(acc.tc, e, 0) + 1)],
                 path, lengths, T, tl, i + 1)

\* the loop without `if l <= 0: continue`
RECURSIVE TimeLoop_NoSkip(_, _, _, _, _, _)
TimeLoop_NoSkip(acc, path, lengths, T, tl, i) ==
    IF i > Len(path) THEN acc
    ELSE LET e == path[i]
             dt == RatMul(RatInt(T), Rat(lengths[i], tl))
         IN  TimeLoop_NoSkip(
                 [ts |-> DictPut(acc.ts, e,
                                 RatAdd(DictGet(acc.ts, e, RatInt(0)), dt)),
                  tc |-> DictPut(acc.tc, e, DictGet(acc.tc, e, 0) + 1)],
                 path, lengths, T, tl, i + 1)

\* the loop storing dt in time_sum instead of adding it
RECURSIVE TimeLoop_Overwrite(_, _, _, _, _, _)
TimeLoop_Overwrite(acc, path, lengths, T, tl, i) ==
    IF i > Len(path) THEN acc
    ELSE IF lengths[i] <= 0
         THEN TimeLoop_Overwrite(acc, path, lengths, T, tl, i + 1)
    ELSE LET e == path[i]
             dt == RatMul(RatInt(T), Rat(lengths[i], tl))
         IN  TimeLoop_Overwrite(
                 [ts |-> DictPut(acc.ts, e, dt),
                  tc |-> DictPut(acc.tc, e, DictGet(acc.tc, e, 0) + 1)],
                 path, lengths, T, tl, i + 1)

\* the loop without the update of time_count
RECURSIVE TimeLoop_SumOnly(_, _, _, _, _, _)
TimeLoop_SumOnly(acc, path, lengths, T, tl, i) ==
    IF i > Len(path) THEN acc
    ELSE IF lengths[i] <= 0
         THEN TimeLoop_SumOnly(acc, path, lengths, T, tl, i + 1)
    ELSE LET e == path[i]
             dt == RatMul(RatInt(T), Rat(lengths[i], tl))
         IN  TimeLoop_SumOnly(
                 [ts |-> DictPut(acc.ts, e,
                                 RatAdd(DictGet(acc.ts, e, RatInt(0)), dt)),
                  tc |-> acc.tc],
                 path, lengths, T, tl, i + 1)

\* for e, l in zip(path_edges, lengths): ... ; acc is [ts, tc]
RECURSIVE TimeLoop(_, _, _, _, _, _)
TimeLoop(acc, path, lengths, T, tl, i) ==
    IF i > Len(path) THEN acc
    ELSE IF lengths[i] <= 0 THEN TimeLoop(acc, path, lengths, T, tl, i + 1)
    ELSE LET e == path[i]
             dt == Dt(T, lengths[i], tl)
         IN  TimeLoop([ts |-> DictPut(acc.ts, e,
                                      RatAdd(DictGet(acc.ts, e, RatInt(0)), dt)),
                       tc |-> DictPut(acc.tc, e, DictGet(acc.tc, e, 0) + 1)],
                      path, lengths, T, tl, i + 1)

\* rid = int(r["id"]) if ... pd.notna(r["id"]) else None
RowRid(r) == r.id

\* the body with the duration test moved before the frequency loop
LoopBody_SkipFreq(st, r, lens, times) ==
    LET pe == parse_edge_seq(r.cpath)
        id == r.id
        T  == IF id = None THEN None
              ELSE IF Val(id) \in DOMAIN times THEN Some(times[Val(id)])
              ELSE None
    IN  IF pe = <<>> THEN [st EXCEPT !.row = Some(r), !.path_edges = pe]
        ELSE IF T = None
             THEN [st EXCEPT !.row = Some(r), !.path_edges = pe,
                             !.rid = id, !.total_time = T]
        ELSE
        LET f  == FreqLoop(st.freq, pe, 1)
            ls == LengthsOf(lens, pe)
            tl == SumSeq(ls)
            s2 == [st EXCEPT !.row = Some(r), !.path_edges = pe, !.freq = f,
                             !.rid = id, !.total_time = T,
                             !.total_len = Some(tl)]
        IN  IF tl <= 0 THEN s2
            ELSE
            LET acc == TimeLoop([ts |-> st.time_sum, tc |-> st.time_count],
                                pe, ls, Val(T), tl, 1)
            IN  [s2 EXCEPT !.time_sum = acc.ts, !.time_count = acc.tc]

\* The body of `for _, r in mm.iterrows()` applied to the state st
\* (a record of the three accumulators and the loop locals).
LoopBody(st, r, lens, times) ==
    LET pe == parse_edge_seq(r.cpath)
    IN  IF pe = <<>> THEN [st EXCEPT !.row = Some(r), !.path_edges = pe]
        ELSE
        LET f  == FreqLoop(st.freq, pe, 1)
            id == RowRid(r)
            T  == IF id = None THEN None
                  ELSE IF Val(id) \in DOMAIN times THEN Some(times[Val(id)])
                  ELSE None
            s1 == [st EXCEPT !.row = Some(r), !.path_edges = pe, !.freq = f,
                             !.rid = id, !.total_time = T]
        IN  IF T = None THEN s1
            ELSE
            LET ls == LengthsOf(lens, pe)
                tl == SumSeq(ls)
                s2 == [s1 EXCEPT !.total_len = Some(tl)]
            IN  IF tl <= 0 THEN s2
                ELSE
                LET acc == TimeLoop([ts |-> st.time_sum, tc |-> st.time_count],
                                    pe, ls, Val(T), tl, 1)
                IN  [s2 EXCEPT !.time_sum = acc.ts, !.time_count = acc.tc]

LoopState == [row |-> row, freq |-> freq, time_sum |-> time_sum,
              time_count |-> time_count, path_edges |-> path_edges,
              rid |-> rid, total_time |-> total_time, total_len |-> total_len]

\* state of main when the loop is entered
LoopInit == [row |-> None, freq |-> EmptyDict, time_sum |-> EmptyDict,
             time_count |-> EmptyDict, path_edges |-> <<>>, rid |-> None,
             total_time |-> None, total_len |-> None]

\* every id looked up in id2time is taken from the matched table, hence is
\* in ids_needed
IdsNeeded == {Val(x) : x \in RowIds \ {None}}

\* task6 is not running
Task6Idle ==
    /\ threshold = Rat(6, 10)
    /\ results = <<>>
    /\ gps_points = <<>>
    /\ matched_geom = None
    /\ locals = None
    /\ entry = None

Init ==
    /\ id2len \in Networks
    /\ id2time = build_id_time_dict(TrainFixes, IdsNeeded)
    /\ nrows = 0
    /\ row = LoopInit.row
    /\ freq = LoopInit.freq
    /\ time_sum = LoopInit.time_sum
    /\ time_count = LoopInit.time_count
    /\ path_edges = LoopInit.path_edges
    /\ rid = LoopInit.rid
    /\ total_time = LoopInit.total_time
    /\ total_len = LoopInit.total_len
    /\ mm = <<>>
    /\ Task6Idle
    /\ AuxIdle

\* the loop iterates the next row r of the matched table
ProcessRow(r) ==
    /\ LET st == LoopBody(LoopState, r, id2len, id2time)
       IN  /\ row' = st.row
           /\ freq' = st.freq
           /\ time_sum' = st.time_sum
           /\ time_count' = st.time_count
           /\ path_edges' = st.path_edges
           /\ rid' = st.rid
           /\ total_time' = st.total_time
           /\ total_len' = st.total_len
    /\ nrows' = nrows + 1
    /\ UNCHANGED <<id2len, id2time>>
    /\ UNCHANGED task6vars
    /\ UNCHANGED auxvars

\* Spec: the loop over a table of up to MaxRows rows
IterateRow(r) ==
    /\ nrows < MaxRows
    /\ ProcessRow(r)
    /\ UNCHANGED mm

Next == \E r \in Rows : IterateRow(r)

Spec == Init /\ [][Next]_vars

\* SpecH: the same loop, the rows it has iterated kept in mm
IterateTableRow(r) ==
    /\ nrows < MaxTableRows
    /\ ProcessRow(r)
    /\ mm' = Append(mm, r)

NextH == \E r \in TableRows : IterateTableRow(r)

InitH == Init /\ id2len \in TableNetworks

SpecH == InitH /\ [][NextH]_vars

--------------------------------------------------------------------------
(* task6: inputs *)

\* SpecC: number of GPS fixes of one trip
MaxFixes == 3
\* SpecC: number of components of a MultiLineString
MaxComponents == 4
\* SpecQ: number of rows of the matched table identify_poor_matches analyses
MaxTrips == 3

\* --threshold, default 0.6; any float may be configured
DefaultThreshold == Rat(6, 10)
Thresholds == {Rat(k, 1000) : k \in {0, 300, 400, 600, 800, 900}}

\* What parse_geom_safe returns: None, a LineString, or a MultiLineString
\* with n >= 1 components.
NoGeom == [kind |-> "None", n |-> 0]
LineString == [kind |-> "LineString", n |-> 1]
MultiLineString(n) == [kind |-> "MultiLineString", n |-> n]
Geoms == {NoGeom, LineString} \cup {MultiLineString(n) : n \in 1..MaxComponents}

\* A GPS fix is modelled by the outcome of its distance computation against
\* the matched geometry: Some(d), d metres, or None when nearest_points or
\* distance raises.
FixDistances == {0, 10, 40, 50, 120}
FixOutcomes == {None} \cup {Some(d) : d \in FixDistances}
GpsLists == UNION {[1..n -> FixOutcomes] : n \in 0..MaxFixes}

\* SpecQ keeps the whole results list; its trips are these.  load_original_gps
\* keeps a trip only with 2 or more valid fixes, so a trip of the batch has
\* none or at least 2.
BatchTrips ==
    { [gps |-> <<>>, geom |-> LineString],
      [gps |-> <<Some(0), Some(0)>>, geom |-> NoGeom],
      [gps |-> <<Some(0), Some(0)>>, geom |-> LineString],
      [gps |-> <<Some(30), Some(50)>>, geom |-> LineString],
      [gps |-> <<Some(40), Some(120)>>, geom |-> LineString],
      [gps |-> <<Some(120), None>>, geom |-> LineString],
      [gps |-> <<Some(0), Some(120)>>, geom |-> MultiLineString(4)],
      [gps |-> <<Some(120), Some(120)>>, geom |-> MultiLineString(4)] }

--------------------------------------------------------------------------
(* calculate_matching_quality *)

RECURSIVE Pow10(_)
Pow10(n) == IF n = 0 THEN 1 ELSE 10 * Pow10(n - 1)

\* round(x, nd) of a rational x >= 0: the nearest multiple of 10^-nd, a tie
\* going to the even one
Round(x, nd) ==
    LET a == x[1] * Pow10(nd)
        b == x[2]
        q == a \div b
        r == a % b
        up == IF 2 * r > b THEN 1
              ELSE IF 2 * r < b THEN 0
              ELSE q % 2
    IN  Rat(q + up, Pow10(nd))

\* the value appended to distances when the computation raises
FallbackDistance == 999

\* the list `distances` built by the loop over gps_points
DistancesOf(gps) ==
    [i \in 1..Len(gps) |->
        IF gps[i] = None THEN RatInt(FallbackDistance)
        ELSE RatInt(Val(gps[i]))]

RECURSIVE RatSumSeq(_)
RatSumSeq(s) == IF s = <<>> THEN RatInt(0) ELSE RatAdd(s[1], RatSumSeq(Tail(s)))

RECURSIVE RatMaxSeq(_)
RatMaxSeq(s) == IF Len(s) = 1 THEN s[1] ELSE RatMax(s[1], RatMaxSeq(Tail(s)))

\* the mean taken as the sum
MeanOf_Sum(distances) ==
    IF distances = <<>> THEN RatInt(999) ELSE RatSumSeq(distances)

\* np.mean(distances) if distances else 999
MeanOf(distances) ==
    IF distances = <<>> THEN RatInt(999)
    ELSE RatDiv(RatSumSeq(distances), RatInt(Len(distances)))

\* np.max(distances) if distances else 999
MaxOf(distances) ==
    IF distances = <<>> THEN RatInt(999) ELSE RatMaxSeq(distances)

\* within_threshold / len(distances) if distances else 0
CoverageOf(distances) ==
    IF distances = <<>> THEN RatInt(0)
    ELSE Rat(Cardinality({i \in 1..Len(distances) :
                             RatLt(distances[i], RatInt(50))}),
             Len(distances))

\* continuity without the MultiLineString test
ContinuityOf_Always1(geom) == RatInt(1)

\* continuity = 1.0, or 1.0 / len(matched_geom.geoms) for a MultiLineString
ContinuityOf(geom) ==
    IF geom.kind = "MultiLineString" THEN Rat(1, geom.n)
    ELSE RatInt(1)

\* distance_score without the clamp at 0
DistanceScore_NoClamp(avg_dist) ==
    RatSub(RatInt(1), RatDiv(avg_dist, RatInt(100)))

\* distance_score = max(0, 1 - avg_dist / 100)
DistanceScore(avg_dist) ==
    RatMax(RatInt(0), RatSub(RatInt(1), RatDiv(avg_dist, RatInt(100))))

\* quality_score = 0.5 * distance_score + 0.4 * coverage + 0.1 * continuity
QualityScore(distance_score, coverage, continuity) ==
    RatAdd(RatAdd(RatMul(Rat(5, 10), distance_score),
                  RatMul(Rat(4, 10), coverage)),
           RatMul(Rat(1, 10), continuity))

\* the early return without the test for an empty fix list
TakesSentinel_GeomOnly(gps, geom) == geom = NoGeom

\* matched_geom is None or not gps_points
TakesSentinel(gps, geom) ==
    geom = NoGeom \/ gps = <<>>

\* the locals of calculate_matching_quality before rounding (the function
\* got past its early return)
QualityLocals(gps, geom) ==
    LET distances == DistancesOf(gps)
        avg_dist == MeanOf(distances)
        max_dist == MaxOf(distances)
        coverage == CoverageOf(distances)
        continuity == ContinuityOf(geom)
        distance_score == DistanceScore(avg_dist)
    IN  [distances |-> distances, avg_dist |-> avg_dist, max_dist |-> max_dist,
         coverage |-> coverage, continuity |-> continuity,
         distance_score |-> distance_score,
         quality_score |-> QualityScore(distance_score, coverage, continuity)]

\* The dict calculate_matching_quality returns.  route_length, which only
\* depends on the length of the geometry and is read by nothing else, is
\* left out.
calculate_matching_quality(gps, geom) ==
    IF TakesSentinel(gps, geom)
    THEN [avg_distance |-> RatInt(999), max_distance |-> RatInt(999),
          coverage |-> RatInt(0), continuity |-> RatInt(0),
          quality_score |-> RatInt(0), num_gps_points |-> Len(gps)]
    ELSE LET l == QualityLocals(gps, geom)
         IN  [avg_distance |-> Round(l.avg_dist, 2),
              max_distance |-> Round(l.max_dist, 2),
              coverage |-> Round(l.coverage, 3),
              continuity |-> Round(l.continuity, 3),
              quality_score |-> Round(l.quality_score, 3),
              num_gps_points |-> Len(gps)]

--------------------------------------------------------------------------
(* identify_poor_matches: the loop over the matched table *)

\* the classification with the Good test dropped when it is not below 0.8
Classify_StrictGood(q_score, t) ==
    IF RatLe(Rat(8, 10), q_score) THEN "Excellent"
    ELSE IF RatLt(t, q_score) THEN "Good"
    ELSE IF RatLe(Rat(4, 10), q_score) THEN "Fair"
    ELSE "Poor"

\* if q_score >= 0.8 ... elif q_score >= threshold ... elif q_score >= 0.4
Classify(q_score, t) ==
    IF RatLe(Rat(8, 10), q_score) THEN "Excellent"
    ELSE IF RatLe(t, q_score) THEN "Good"
    ELSE IF RatLe(Rat(4, 10), q_score) THEN "Fair"
    ELSE "Poor"

IsPoor_AtMost(q_score, t) == RatLe(q_score, t)

\* 'is_poor': q_score < threshold
IsPoor(q_score, t) == RatLt(q_score, t)

\* the record appended to results for the row with index idx
ResultRow(idx, gps, geom, t) ==
    LET metrics == calculate_matching_quality(gps, geom)
    IN  [trip_id |-> idx,
         quality_class |-> Classify(metrics.quality_score, t),
         is_poor |-> IsPoor(metrics.quality_score, t),
         avg_distance |-> metrics.avg_distance,
         max_distance |-> metrics.max_distance,
         coverage |-> metrics.coverage,
         continuity |-> metrics.continuity,
         quality_score |-> metrics.quality_score,
         num_gps_points |-> metrics.num_gps_points]

\* task5 is not running
Task5Idle ==
    /\ id2len = EmptyDict
    /\ id2time = EmptyDict
    /\ nrows = 0
    /\ row = None
    /\ freq = EmptyDict
    /\ time_sum = EmptyDict
    /\ time_count = EmptyDict
    /\ path_edges = <<>>
    /\ rid = None
    /\ total_time = None
    /\ total_len = None
    /\ mm = <<>>

\* identify_poor_matches is entered with the configured threshold
InitQ ==
    /\ threshold \in Thresholds
    /\ results = <<>>
    /\ gps_points = <<>>
    /\ matched_geom = None
    /\ locals = None
    /\ entry = None
    /\ Task5Idle
    /\ AuxIdle

\* The body of `for idx, row in df_matched.iterrows()` up to the dict it
\* builds: the row's geometry resolves to m, its trip has the fixes g.
\* locals keeps what calculate_matching_quality computed before rounding,
\* None when it returned early.
ScoreRow(g, m) ==
    /\ gps_points' = g
    /\ matched_geom' = Some(m)
    /\ locals' = IF TakesSentinel(g, m) THEN None
                 ELSE Some(QualityLocals(g, m))
    /\ entry' = Some(ResultRow(Len(results), g, m, threshold))
    /\ UNCHANGED threshold
    /\ UNCHANGED task5vars
    /\ UNCHANGED auxvars

\* one iteration of the loop, results.append included
AnalyzeTrip(g, m) ==
    /\ ScoreRow(g, m)
    /\ results' = Append(results, ResultRow(Len(results), g, m, threshold))

\* SpecC: a table of one row, drawn from every fix list and geometry of the
\* bounds
AnalyzeOneTrip(g, m) ==
    /\ results = <<>>
    /\ AnalyzeTrip(g, m)

NextC == \E g \in GpsLists, m \in Geoms : AnalyzeOneTrip(g, m)

SpecC == InitQ /\ [][NextC]_vars

\* SpecQ: a table of up to MaxTrips rows, drawn from BatchTrips
AnalyzeBatchTrip(t) ==
    /\ Len(results) < MaxTrips
    /\ AnalyzeTrip(t.gps, t.geom)

NextQ == \E t \in BatchTrips : AnalyzeBatchTrip(t)

SpecQ == InitQ /\ [][NextQ]_vars

--------------------------------------------------------------------------
(* parse_edge_seq called on its own *)

InitP ==
    /\ Task5Idle
    /\ Task6Idle
    /\ AuxIdle

\* one call parse_edge_seq(a)
DecodeField(a) ==
    /\ field = None
    /\ field' = Some(a)
    /\ decoded' = parse_edge_seq_arg(a)
    /\ UNCHANGED <<task5vars, task6vars, resolvervars, runvars>>

NextP == \E a \in Fields : DecodeField(a)

SpecP == InitP /\ [][NextP]_vars

--------------------------------------------------------------------------
(* parse_geom_safe (src/task6.py and src/3/post_stmatch_view.py) *)

\* A WKT text is a sequence of tokens, each token a run of characters:
\* keywords, parentheses, commas, blanks, quotes, a coordinate pair such as
\* "0 0", and a whole parenthesised component "(0 0, 1 1)".  No token but
\* the blank begins or ends with white space, none but the quotes with a
\* quote, and none but ")" and "," holds a comma before a ")".
Blank == " "
CoordPairs == {"0 0", "1 1"}
Components == {"(0 0, 1 1)", "(2 2, 3 3)"}

\* str.upper() on a token
Upper(tok) ==
    CASE tok = "linestring" -> "LINESTRING"
      [] tok = "empty" -> "EMPTY"
      [] OTHER -> tok

RECURSIVE LStrip(_, _)
LStrip(s, chars) ==
    IF s # <<>> /\ s[1] \in chars THEN LStrip(Tail(s), chars) ELSE s

RECURSIVE RStrip(_, _)
RStrip(s, chars) ==
    IF s # <<>> /\ s[Len(s)] \in chars
    THEN RStrip(SubSeq(s, 1, Len(s) - 1), chars)
    ELSE s

\* str.strip(chars)
Strip(s, chars) == RStrip(LStrip(s, chars), chars)

\* s = wkt_text.strip().strip('"').strip("'")
Cleaned(s) == Strip(Strip(Strip(s, {Blank}), {"\""}), {"'"})

\* s.upper().endswith("EMPTY")
EndsWithEmpty(s) == s # <<>> /\ Upper(s[Len(s)]) = "EMPTY"

RECURSIVE SkipBlanks(_, _)
SkipBlanks_None(s, i) == i

\* first index from i on that holds no blank
SkipBlanks(s, i) ==
    IF i <= Len(s) /\ s[i] = Blank THEN SkipBlanks(s, i + 1) ELSE i

\* re.sub(r',\s*\)', ')', s) from position i: every comma followed by
\* blanks and a ")" is replaced, with the blanks, by the ")"
RECURSIVE FixTailComma(_, _)
FixTailComma(s, i) ==
    IF i > Len(s) THEN <<>>
    ELSE IF s[i] = ","
         THEN LET j == SkipBlanks(s, i + 1)
              IN  IF j <= Len(s) /\ s[j] = ")"
                  THEN <<")">> \o FixTailComma(s, j + 1)
                  ELSE <<s[i]>> \o FixTailComma(s, i + 1)
    ELSE <<s[i]>> \o FixTailComma(s, i + 1)

\* the tokens of s that are no blanks, in upper case: what the WKT reader
\* reads
WktTokens(s) ==
    LET t == SelectSeq(s, LAMBDA x : x # Blank)
    IN  [i \in 1..Len(t) |-> Upper(t[i])]

\* an empty LineString: a geometry object, not None
EmptyLineString == [kind |-> "LineString", n |-> 0]

\* wkt.loads(s): Some(geometry), or None when it raises.  The reader skips
\* blanks between tokens and reads
\*   LINESTRING EMPTY
\*   LINESTRING ( pair , pair [, pair]... )
\*   MULTILINESTRING ( component [, component]... )
\* and raises on anything else.
wkt_loads(s) ==
    LET t == WktTokens(s)
        n == Len(t)
    IN  IF t = <<"LINESTRING", "EMPTY">> THEN Some(EmptyLineString)
        ELSE IF /\ n >= 6 /\ n % 2 = 0
                /\ t[1] = "LINESTRING" /\ t[2] = "(" /\ t[n] = ")"
                /\ \A i \in 3..(n - 1) :
                      IF i % 2 = 1 THEN t[i] \in CoordPairs ELSE t[i] = ","
             THEN Some(LineString)
        ELSE IF /\ n >= 4 /\ n % 2 = 0
                /\ t[1] = "MULTILINESTRING" /\ t[2] = "(" /\ t[n] = ")"
                /\ \A i \in 3..(n - 1) :
                      IF i % 2 = 1 THEN t[i] \in Components ELSE t[i] = ","
             THEN Some(MultiLineString((n - 2) \div 2))
        ELSE None

\* parse_geom_safe of src/task6.py on the value a: what it returns, and the
\* texts it passed to wkt.loads
parse_geom_safe(a) ==
    IF ~a.is_str THEN [ret |-> NoGeom, loads |-> <<>>]
    ELSE LET s == Cleaned(a.chars)
         IN  IF s = <<>> \/ EndsWithEmpty(s)
             THEN [ret |-> NoGeom, loads |-> <<>>]
             ELSE LET g == wkt_loads(s)
                  IN  IF g # None THEN [ret |-> Val(g), loads |-> <<s>>]
                      ELSE LET s2 == FixTailComma(s, 1)
                               g2 == wkt_loads(s2)
                           IN  IF g2 # None
                               THEN [ret |-> Val(g2), loads |-> <<s, s2>>]
                               ELSE [ret |-> NoGeom, loads |-> <<s, s2>>]

\* parse_geom_safe of src/3/post_stmatch_view.py: the retry is made only
\* when the repair changed the text
parse_geom_safe_view(a) ==
    IF ~a.is_str THEN [ret |-> NoGeom, loads |-> <<>>]
    ELSE LET s == Cleaned(a.chars)
         IN  IF s = <<>> \/ EndsWithEmpty(s)
             THEN [ret |-> NoGeom, loads |-> <<>>]
             ELSE LET g == wkt_loads(s)
                  IN  IF g # None THEN [ret |-> Val(g), loads |-> <<s>>]
                      ELSE LET s2 == FixTailComma(s, 1)
                           IN  IF s2 # s
                               THEN LET g2 == wkt_loads(s2)
                                    IN  IF g2 # None
                                        THEN [ret |-> Val(g2), loads |-> <<s, s2>>]
                                        ELSE [ret |-> NoGeom, loads |-> <<s, s2>>]
                               ELSE [ret |-> NoGeom, loads |-> <<s>>]

\* SpecG: number of tokens inserted into a well-formed text
MaxEdits == 2

\* the well-formed texts the map matcher writes
WellFormedTexts ==
    { <<"LINESTRING", "(", "0 0", ",", Blank, "1 1", ")">>,
      <<"LINESTRING", Blank, "EMPTY">>,
      <<"linestring", Blank, "empty">>,
      <<"\"", "LINESTRING", Blank, "EMPTY", "\"">>,
      <<"MULTILINESTRING", "(", "(0 0, 1 1)", ",", Blank, "(2 2, 3 3)", ")">> }

\* the tokens a malformed text has too many of
EditTokens == {",", Blank, ")", "\"", "EMPTY"}

\* s with the token tok inserted after position i
InsertAt(s, i, tok) == SubSeq(s, 1, i) \o <<tok>> \o SubSeq(s, i + 1, Len(s))

RECURSIVE EditedTexts(_)
\* the well-formed texts with up to k tokens inserted
EditedTexts(k) ==
    IF k = 0 THEN WellFormedTexts
    ELSE LET prev == EditedTexts(k - 1)
         IN  prev \cup UNION {{InsertAt(s, i, tok) :
                                   i \in 0..Len(s), tok \in EditTokens} :
                               s \in prev}

\* the values parse_geom_safe is called on in SpecG
WktArgs ==
    {NonText, Text(<<>>), Text(<<Blank>>)}
    \cup {Text(s) : s \in EditedTexts(MaxEdits)}

InitG ==
    /\ Task5Idle
    /\ Task6Idle
    /\ AuxIdle

\* one call of parse_geom_safe of src/task6.py
ResolveGeom(a) ==
    /\ wkt_text = None
    /\ resolver' = "task6"
    /\ wkt_text' = Some(a)
    /\ resolved' = Some(parse_geom_safe(a).ret)
    /\ loads_calls' = parse_geom_safe(a).loads
    /\ UNCHANGED <<task5vars, task6vars, decodervars, runvars>>

\* one call of parse_geom_safe of src/3/post_stmatch_view.py
ResolveGeomView(a) ==
    /\ wkt_text = None
    /\ resolver' = "post_stmatch_view"
    /\ wkt_text' = Some(a)
    /\ resolved' = Some(parse_geom_safe_view(a).ret)
    /\ loads_calls' = parse_geom_safe_view(a).loads
    /\ UNCHANGED <<task5vars, task6vars, decodervars, runvars>>

\* one call of either function
ResolveAny ==
    /\ wkt_text = None
    /\ \E a \in WktArgs : ResolveGeom(a) \/ ResolveGeomView(a)

NextG == ResolveAny

SpecG == InitG /\ [][NextG]_vars

--------------------------------------------------------------------------
(* One run of main: task5_route_analysis.py, or task6.py without
   --visualize and --max-trips *)

\* SpecRun: the matched tables of task5, of up to MaxTableRows rows
RunRows ==
    { [id |-> Some(0), cpath |-> CpathText(<<12, 1>>)],
      [id |-> Some(0), cpath |-> CpathText(<<1>>)],
      [id |-> Some(2), cpath |-> CpathText(<<12>>)],
      [id |-> None, cpath |-> CpathText(<<1, 12>>)],
      [id |-> Some(0), cpath |-> CpathText(<<>>)] }

\* the networks of SpecRun: two edges as long as each other, and an edge of
\* length 0
RunNetworks ==
    { [e \in {1, 12} |-> 100],
      [e \in {1, 12} |-> IF e = 1 THEN 0 ELSE 300] }

\* args.topk
TopKs == {1, 2}

\* the column names a matched table can have
MatchedColumns ==
    { {"id", "cpath", "mgeom"}, {"id", "opath", "mgeom"}, {"id", "mgeom"} }

\* what can be wrong with the input files of a run of task5
Task5Faults == {"none", "edges", "matched", "train"}

\* what can be wrong with the input files of a run of task6
Task6Faults ==
    {"none", "matched_missing", "train_missing",
     "matched_unreadable", "train_unreadable"}

Task5Outputs ==
    <<"task5_topfreq.csv", "task5_toptime.csv",
      "task5_topfreq.html", "task5_toptime.html">>

ReadOf(f) == [op |-> "read", file |-> f]
WriteOf(f) == [op |-> "write", file |-> f]

use_field_Default(cols) ==
    IF "cpath" \in cols THEN Some("cpath") ELSE Some("opath")

\* use_field = "cpath" if "cpath" in mm.columns else ("opath" if ... else None)
use_field(cols) ==
    IF "cpath" \in cols THEN Some("cpath")
    ELSE IF "opath" \in cols THEN Some("opath")
    ELSE None

\* the rows of pd.DataFrame([{"id": e, "freq": c} for e, c in freq.items()])
FreqRows(f) == {[id |-> e, freq |-> f[e]] : e \in DOMAIN f}

\* the rows of the DataFrame of the edges of time_sum with a positive count
AvgRows(ts, tc) ==
    {[id |-> e, avg_time_s |-> RatDiv(ts[e], RatInt(tc[e]))] :
        e \in {x \in DOMAIN ts : DictGet(tc, x, 0) > 0}}

\* the orders a set of rows can be put in
OrdersOf(rows) ==
    {f \in [1..Cardinality(rows) -> rows] : \A x \in rows : \E i \in DOMAIN f : f[i] = x}

\* sort_values("freq", ascending=False): the sort is not stable, rows of
\* equal freq come out in any order
SortByFreq(rows) ==
    {f \in OrdersOf(rows) :
        \A i \in 1..(Len(f) - 1) : f[i].freq >= f[i + 1].freq}

\* sort_values("avg_time_s", ascending=False)
SortByAvg(rows) ==
    {f \in OrdersOf(rows) :
        \A i \in 1..(Len(f) - 1) : RatLe(f[i + 1].avg_time_s, f[i].avg_time_s)}

\* DataFrame.head(k)
HeadRows(df, k) == SubSeq(df, 1, IF k < Len(df) THEN k ELSE Len(df))

\* main is entered: the arguments and the files of the run are any
InitRun ==
    /\ Task5Idle
    /\ results = <<>>
    /\ gps_points = <<>>
    /\ matched_geom = None
    /\ locals = None
    /\ entry = None
    /\ DecoderIdle
    /\ ResolverIdle
    /\ prog \in {"task5", "task6"}
    /\ pc = "start"
    /\ IF prog = "task5"
       THEN /\ fault \in Task5Faults
            /\ columns \in MatchedColumns
            /\ topk \in TopKs
            /\ threshold = DefaultThreshold
       ELSE /\ fault \in Task6Faults
            /\ columns = {"id", "cpath", "mgeom"}
            /\ topk = 0
            /\ threshold \in Thresholds
    /\ freq_df = None
    /\ avg_df = None
    /\ io = <<>>
    /\ poor_matches = <<>>
    /\ report = None

\* task5: edges = load_edge_lengths(args.edges); id2len = dict(...)
LoadEdges ==
    /\ prog = "task5"
    /\ pc = "start"
    /\ IF fault = "edges"
       THEN /\ pc' = "raised"
            /\ UNCHANGED <<id2len, io>>
       ELSE /\ id2len' \in RunNetworks
            /\ io' = Append(io, ReadOf("edges"))
            /\ pc' = "edges_read"
    /\ UNCHANGED <<id2time, nrows, row, freq, time_sum, time_count,
                   path_edges, rid, total_time, total_len, mm>>
    /\ UNCHANGED <<task6vars, decodervars, resolvervars>>
    /\ UNCHANGED <<prog, fault, columns, topk, freq_df, avg_df,
                   poor_matches, report>>

\* task5: mm = pd.read_csv(args.matched, ...); use_field; SystemExit when
\* the table has neither cpath nor opath
LoadMatched ==
    /\ prog = "task5"
    /\ pc = "edges_read"
    /\ IF fault = "matched"
       THEN /\ pc' = "raised"
            /\ UNCHANGED io
       ELSE /\ io' = Append(io, ReadOf("matched"))
            /\ pc' = IF use_field(columns) = None THEN "raised"
                     ELSE "matched_read"
    /\ UNCHANGED <<task5vars, task6vars, decodervars, resolvervars>>
    /\ UNCHANGED <<prog, fault, columns, topk, freq_df, avg_df,
                   poor_matches, report>>

\* task5: id2time = build_id_time_dict(args.train, ids_needed, 15)
LoadTrain ==
    /\ prog = "task5"
    /\ pc = "matched_read"
    /\ IF fault = "train"
       THEN /\ pc' = "raised"
            /\ UNCHANGED <<id2time, io>>
       ELSE /\ id2time' = build_id_time_dict(TrainFixes, IdsNeeded)
            /\ io' = Append(io, ReadOf("train"))
            /\ pc' = "loop"
    /\ UNCHANGED <<id2len, nrows, row, freq, time_sum, time_count,
                   path_edges, rid, total_time, total_len, mm>>
    /\ UNCHANGED <<task6vars, decodervars, resolvervars>>
    /\ UNCHANGED <<prog, fault, columns, topk, freq_df, avg_df,
                   poor_matches, report>>

\* task5: the loop iterates the next row of mm
RunRow(r) ==
    /\ prog = "task5"
    /\ pc = "loop"
    /\ IterateTableRow(r)

\* task5: the loop is over; freq_df and avg_df are computed.  A DataFrame
\* made from an empty list has no columns, and sort_values raises KeyError.
RankTables ==
    /\ prog = "task5"
    /\ pc = "loop"
    /\ IF FreqRows(freq) = {}
       THEN /\ pc' = "raised"
            /\ UNCHANGED <<freq_df, avg_df>>
       ELSE /\ \E f \in SortByFreq(FreqRows(freq)) :
                  freq_df' = Some(HeadRows(f, topk))
            /\ IF AvgRows(time_sum, time_count) = {}
               THEN /\ pc' = "raised"
                    /\ UNCHANGED avg_df
               ELSE /\ \E a \in SortByAvg(AvgRows(time_sum, time_count)) :
                          avg_df' = Some(HeadRows(a, topk))
                    /\ pc' = "ranked"
    /\ UNCHANGED <<task5vars, task6vars, decodervars, resolvervars>>
    /\ UNCHANGED <<prog, fault, columns, topk, io, poor_matches, report>>

\* task5: the n-th output file is written once the n-1 before it are:
\* freq_df.to_csv, avg_df.to_csv, then the two maps
WriteOutput(n) ==
    /\ prog = "task5"
    /\ pc = (<<"ranked", "freq_csv", "avg_csv", "freq_map">>)[n]
    /\ io' = Append(io, WriteOf(Task5Outputs[n]))
    /\ pc' = (<<"freq_csv", "avg_csv", "freq_map", "done">>)[n]
    /\ UNCHANGED <<task5vars, task6vars, decodervars, resolvervars>>
    /\ UNCHANGED <<prog, fault, columns, topk, freq_df, avg_df,
                   poor_matches, report>>

\* task6: main returns when one of the two files does not exist
CheckInputs ==
    /\ prog = "task6"
    /\ pc = "start"
    /\ pc' = IF fault \in {"matched_missing", "train_missing"}
             THEN "returned" ELSE "checked"
    /\ UNCHANGED <<task5vars, task6vars, decodervars, resolvervars>>
    /\ UNCHANGED <<prog, fault, columns, topk, freq_df, avg_df, io,
                   poor_matches, report>>

\* task6: df_matched = pd.read_csv(matched_csv, ...)
ReadMatched ==
    /\ prog = "task6"
    /\ pc = "checked"
    /\ IF fault = "matched_unreadable"
       THEN /\ pc' = "raised"
            /\ UNCHANGED io
       ELSE /\ io' = Append(io, ReadOf("matched"))
            /\ pc' = "matched_read"
    /\ UNCHANGED <<task5vars, task6vars, decodervars, resolvervars>>
    /\ UNCHANGED <<prog, fault, columns, topk, freq_df, avg_df,
                   poor_matches, report>>

\* task6: gps_data = load_original_gps(train_csv, max_trips)
ReadGps ==
    /\ prog = "task6"
    /\ pc = "matched_read"
    /\ IF fault = "train_unreadable"
       THEN /\ pc' = "raised"
            /\ UNCHANGED io
       ELSE /\ io' = Append(io, ReadOf("train"))
            /\ pc' = "loop"
    /\ UNCHANGED <<task5vars, task6vars, decodervars, resolvervars>>
    /\ UNCHANGED <<prog, fault, columns, topk, freq_df, avg_df,
                   poor_matches, report>>

\* task6: the loop iterates the next row of df_matched
RunTrip(t) ==
    /\ prog = "task6"
    /\ pc = "loop"
    /\ AnalyzeBatchTrip(t)

\* len(df[df['quality_class'] == c])
CountClass(df, c) ==
    Cardinality({i \in 1..Len(df) : df[i].quality_class = c})

\* the counts the summary of identify_poor_matches prints: the four lines
\* of the quality distribution and, when there are poor matches, the three
\* of the common issues
Summary(df, poor) ==
    [total |-> Len(df),
     excellent |-> CountClass(df, "Excellent"),
     good |-> CountClass(df, "Good"),
     fair |-> CountClass(df, "Fair"),
     poor |-> Len(poor),
     issues |->
        IF Len(poor) > 0
        THEN Some([high_dist |-> Cardinality({i \in 1..Len(poor) :
                                    RatLt(RatInt(100), poor[i].avg_distance)}),
                   low_cov |-> Cardinality({i \in 1..Len(poor) :
                                    RatLt(poor[i].coverage, Rat(3, 10))}),
                   fragmented |-> Cardinality({i \in 1..Len(poor) :
                                    RatLt(poor[i].continuity, Rat(1, 2))})])
        ELSE None]

\* task6: the loop is over; df_results, poor_matches and the summary.  With
\* no row df_results has no columns and df_results['is_poor'] raises
\* KeyError.
Summarise ==
    /\ prog = "task6"
    /\ pc = "loop"
    /\ IF results = <<>>
       THEN /\ pc' = "raised"
            /\ UNCHANGED <<poor_matches, report>>
       ELSE /\ poor_matches' = SelectSeq(results, LAMBDA r : r.is_poor)
            /\ report' = Some(Summary(results,
                                 SelectSeq(results, LAMBDA r : r.is_poor)))
            /\ pc' = "summarised"
    /\ UNCHANGED <<task5vars, task6vars, decodervars, resolvervars>>
    /\ UNCHANGED <<prog, fault, columns, topk, freq_df, avg_df, io>>

\* task6: df_results.to_csv(args.out)
WriteQuality ==
    /\ prog = "task6"
    /\ pc = "summarised"
    /\ io' = Append(io, WriteOf("quality_analysis.csv"))
    /\ pc' = "quality_csv"
    /\ UNCHANGED <<task5vars, task6vars, decodervars, resolvervars>>
    /\ UNCHANGED <<prog, fault, columns, topk, freq_df, avg_df,
                   poor_matches, report>>

\* task6: poor_matches.to_csv(poor_file) when there is a poor match
WritePoor ==
    /\ prog = "task6"
    /\ pc = "quality_csv"
    /\ io' = IF Len(poor_matches) > 0
             THEN Append(io, WriteOf("poor_matches.csv"))
             ELSE io
    /\ pc' = "done"
    /\ UNCHANGED <<task5vars, task6vars, decodervars, resolvervars>>
    /\ UNCHANGED <<prog, fault, columns, topk, freq_df, avg_df,
                   poor_matches, report>>

NextRun ==
    \/ LoadEdges
    \/ LoadMatched
    \/ LoadTrain
    \/ \E r \in RunRows : RunRow(r)
    \/ RankTables
    \/ \E n \in 1..4 : WriteOutput(n)
    \/ CheckInputs
    \/ ReadMatched
    \/ ReadGps
    \/ \E t \in BatchTrips : RunTrip(t)
    \/ Summarise
    \/ WriteQuality
    \/ WritePoor

SpecRun == InitRun /\ [][NextRun]_vars

--------------------------------------------------------------------------
(* task5: what the claims talk about *)

\* the step is one iteration of the accumulation loop
RowStep == nrows' = nrows + 1
\* the row that iteration takes, and the row the last iteration took
NewRow == Val(row')
LastRow == Val(row)

\* duration of the trip of row r as the training csv defines it: (n - 1) * 15
\* seconds for a trip with n >= 2 fixes, none otherwise
TripDuration(r) ==
    IF r.id = None THEN None
    ELSE IF Val(r.id) + 1 > Len(TrainFixes) THEN None
    ELSE IF TrainFixes[Val(r.id) + 1] < 2 THEN None
    ELSE Some((TrainFixes[Val(r.id) + 1] - 1) * 15)

\* length of edge e in the network index lens; 0 for an unknown edge id
EdgeLen(lens, e) == IF e \in DOMAIN lens THEN lens[e] ELSE 0

\* positions of path that hold edge e
Occurrences(path, e) == {i \in 1..Len(path) : path[i] = e}
\* positions of path that hold edge e with a positive length
PosOccurrences(lens, path, e) ==
    {i \in Occurrences(path, e) : EdgeLen(lens, path[i]) > 0}

RECURSIVE SumOver(_, _, _)
\* sum of the lengths of the positions in I
SumOver(lens, path, I) ==
    IF I = {} THEN 0
    ELSE LET i == CHOOSE x \in I : TRUE
         IN  EdgeLen(lens, path[i]) + SumOver(lens, path, I \ {i})

\* total edge length of a path, and the same over its positive lengths only
PathLength(lens, path) == SumOver(lens, path, 1..Len(path))
PosPathLength(lens, path) ==
    SumOver(lens, path, {i \in 1..Len(path) : EdgeLen(lens, path[i]) > 0})

\* all edge ids that are keys of either dict, or may occur in a path
KeysOf(d1, d2) == (DOMAIN d1) \cup (DOMAIN d2) \cup EdgeIds

RECURSIVE RatSumDelta(_, _, _)
\* sum over the edges E of after[e] - before[e], an absent key counting as 0
RatSumDelta(before, after, E) ==
    IF E = {} THEN RatInt(0)
    ELSE LET e == CHOOSE x \in E : TRUE
         IN  RatAdd(RatSub(DictGet(after, e, RatInt(0)),
                           DictGet(before, e, RatInt(0))),
                    RatSumDelta(before, after, E \ {e}))

\* the last iteration attributed time: its row has a non-empty path of
\* positive total length and a trip with a duration
LastRowTimed ==
    /\ row # None
    /\ path_edges = parse_edge_seq(LastRow.cpath)
    /\ path_edges # <<>>
    /\ TripDuration(LastRow) # None
    /\ PathLength(id2len, path_edges) > 0

--------------------------------------------------------------------------
(* C1 *)

\* C1: time conservation.  Whenever the loop iterates a row whose trip has a
\* defined duration T and whose path has total edge length > 0, the dt
\* values that this one row adds to time_sum, summed over all edges, equal T.
C1_TimeConservation ==
    [][ (/\ RowStep
         /\ path_edges' # <<>>
         /\ TripDuration(NewRow) # None
         /\ PathLength(id2len, path_edges') > 0)
        => RatSumDelta(time_sum, time_sum', KeysOf(time_sum, time_sum'))
             = RatInt(Val(TripDuration(NewRow))) ]_vars

\* the second row is timed and its path holds a positive-length edge twice,
\* an edge the first row had already been attributed time on
C1_Witness ==
    /\ nrows = 2
    /\ LastRowTimed
    /\ Len(path_edges) = 2
    /\ path_edges[1] = path_edges[2]
    /\ time_count[path_edges[1]] >= 3

\* a timed row whose path holds a positive-length edge and a zero-length
\* edge of the network
C1_WitnessZeroLength ==
    /\ LastRowTimed
    /\ \E k \in 1..Len(path_edges) :
          path_edges[k] \in DOMAIN id2len /\ id2len[path_edges[k]] = 0

\* a timed row whose path holds a positive-length edge and an edge id
\* unknown to the network
C1_WitnessUnknownEdge ==
    /\ LastRowTimed
    /\ \E k \in 1..Len(path_edges) : path_edges[k] \notin DOMAIN id2len

--------------------------------------------------------------------------
(* C2 *)

RECURSIVE TotalOccurrences(_, _)
\* number of occurrences of edge e over the decoded paths of the rows
TotalOccurrences(rows, e) ==
    IF rows = <<>> THEN 0
    ELSE Cardinality(Occurrences(parse_edge_seq(rows[1].cpath), e))
         + TotalOccurrences(Tail(rows), e)

\* C2: frequency exactness.  After the loop has iterated the rows mm, freq[e]
\* is the number of occurrences of e over all decoded paths, a repeated edge
\* counting once per occurrence, and an edge that occurs in no path is no
\* key of freq.
C2_FrequencyExact ==
    \A e \in EdgeIds \cup DOMAIN freq :
        IF TotalOccurrences(mm, e) = 0 THEN e \notin DOMAIN freq
        ELSE e \in DOMAIN freq /\ freq[e] = TotalOccurrences(mm, e)

\* two rows, an edge repeated inside one path and present in the other,
\* and an edge that occurs in no path
C2_Witness ==
    /\ Len(mm) = 2
    /\ \E e \in EdgeIds :
          /\ Cardinality(Occurrences(parse_edge_seq(mm[1].cpath), e)) >= 2
          /\ Cardinality(Occurrences(parse_edge_seq(mm[2].cpath), e)) >= 1
          /\ freq[e] >= 3
    /\ \E e \in EdgeIds : e \notin DOMAIN freq

\* a row without a duration is counted all the same
C2_WitnessUntimedRow ==
    /\ Len(mm) = 2
    /\ TripDuration(mm[2]) = None
    /\ \E e \in DOMAIN freq : freq[e] >= 2 /\ e \notin DOMAIN time_count

--------------------------------------------------------------------------
(* C3 *)

RECURSIVE Accumulate(_, _, _, _)
\* the whole loop run over the table rows from the state st
Accumulate(st, rows, lens, times) ==
    IF rows = <<>> THEN st
    ELSE Accumulate(LoopBody(st, rows[1], lens, times), Tail(rows), lens, times)

RowOrders(n) == {p \in [1..n -> 1..n] : \A i, j \in 1..n : p[i] = p[j] => i = j}

\* C3: order independence.  The table mm iterated in any permutation of its
\* rows ends with the freq, time_count and time_sum the loop has reached.
C3_OrderIndependent ==
    \A p \in RowOrders(Len(mm)) :
        LET st == Accumulate(LoopInit, [i \in 1..Len(mm) |-> mm[p[i]]],
                             id2len, id2time)
        IN  /\ st.freq = freq
            /\ st.time_sum = time_sum
            /\ st.time_count = time_count

\* two different timed rows with different durations that share an edge,
\* and an edge that is counted but never attributed time
C3_Witness ==
    /\ Len(mm) = 2
    /\ mm[1] # mm[2]
    /\ TripDuration(mm[1]) # None /\ TripDuration(mm[2]) # None
    /\ TripDuration(mm[1]) # TripDuration(mm[2])
    /\ \E e \in DOMAIN time_count : time_count[e] >= 2
    /\ \E e \in DOMAIN freq : e \notin DOMAIN time_sum

--------------------------------------------------------------------------
(* C4 *)

\* C4: skipped time attribution.  When the loop iterates a row with a
\* non-empty path whose trip has no defined duration (id missing, trip not
\* in the training csv, fewer than 2 fixes) or whose path has total length
\* <= 0, time_sum and time_count stay as they were and freq grows by one per
\* occurrence of every edge of the path.
C4_SkipKeepsTime ==
    [][ (/\ RowStep
         /\ path_edges' # <<>>
         /\ \/ TripDuration(NewRow) = None
            \/ PathLength(id2len, path_edges') <= 0)
        => /\ time_sum' = time_sum
           /\ time_count' = time_count
           /\ \A e \in KeysOf(freq, freq') :
                 DictGet(freq', e, 0)
                   = DictGet(freq, e, 0)
                     + Cardinality(Occurrences(path_edges', e)) ]_vars

\* the second row, with a non-empty path, comes after a row that was
\* attributed time, and an edge has been counted twice
C4_SecondRow ==
    /\ nrows = 2
    /\ row # None
    /\ path_edges = parse_edge_seq(LastRow.cpath)
    /\ path_edges # <<>>
    /\ time_sum # EmptyDict
    /\ \E e \in DOMAIN freq : freq[e] >= 2

\* skipped: the trip has fewer than 2 fixes
C4_Witness ==
    /\ C4_SecondRow
    /\ LastRow.id = Some(1)
    /\ TripDuration(LastRow) = None
    /\ total_time = None

\* skipped: the row has no id
C4_WitnessMissingId ==
    C4_SecondRow /\ LastRow.id = None /\ rid = None /\ total_time = None

\* skipped: the trip is not in the training csv
C4_WitnessUnknownTrip ==
    C4_SecondRow /\ LastRow.id = Some(3) /\ total_time = None

\* skipped: the trip has a duration, the path has total length 0
C4_WitnessZeroLength ==
    /\ C4_SecondRow
    /\ TripDuration(LastRow) # None
    /\ total_time # None
    /\ total_len = Some(0)

--------------------------------------------------------------------------
(* C5 *)

RECURSIVE ShareOf(_, _, _, _, _)
\* sum over the positions I of path of T * l / denom
ShareOf(lens, path, I, T, denom) ==
    IF I = {} THEN RatInt(0)
    ELSE LET i == CHOOSE x \in I : TRUE
         IN  RatAdd(Rat(T * EdgeLen(lens, path[i]), denom),
                    ShareOf(lens, path, I \ {i}, T, denom))

\* C5: edges of length <= 0, unknown edge ids included, are left out of the
\* allocation and of the denominator.  When the loop iterates a row with a
\* defined duration T whose path has a positive-length occurrence, every
\* occurrence with l > 0 adds T * l / (sum of the positive lengths of the
\* path) to time_sum and 1 to time_count of its edge, and an edge with no
\* such occurrence keeps its time_sum and time_count, or has none.
C5_ZeroLengthExcluded ==
    [][ (/\ RowStep
         /\ path_edges' # <<>>
         /\ TripDuration(NewRow) # None
         /\ PosPathLength(id2len, path_edges') > 0)
        => \A e \in KeysOf(time_sum, time_sum') \cup DOMAIN time_count' :
              LET pos == PosOccurrences(id2len, path_edges', e)
              IN  IF pos = {}
                  THEN /\ (e \in DOMAIN time_sum') = (e \in DOMAIN time_sum)
                       /\ (e \in DOMAIN time_count') = (e \in DOMAIN time_count)
                       /\ e \in DOMAIN time_sum => time_sum'[e] = time_sum[e]
                       /\ e \in DOMAIN time_count => time_count'[e] = time_count[e]
                  ELSE /\ e \in DOMAIN time_sum' /\ e \in DOMAIN time_count'
                       /\ time_sum'[e]
                            = RatAdd(DictGet(time_sum, e, RatInt(0)),
                                     ShareOf(id2len, path_edges', pos,
                                             Val(TripDuration(NewRow)),
                                             PosPathLength(id2len, path_edges')))
                       /\ time_count'[e]
                            = DictGet(time_count, e, 0) + Cardinality(pos) ]_vars

\* a timed row whose path holds a positive-length edge and a zero-length
\* edge of the network: the first has a time, the second has none
C5_Witness ==
    /\ LastRowTimed
    /\ \E i, j \in 1..Len(path_edges) :
          /\ EdgeLen(id2len, path_edges[i]) > 0
          /\ path_edges[j] \in DOMAIN id2len /\ id2len[path_edges[j]] = 0
          /\ path_edges[i] \in DOMAIN time_sum
          /\ path_edges[j] \in DOMAIN freq
          /\ path_edges[j] \notin DOMAIN time_sum
          /\ path_edges[j] \notin DOMAIN time_count

\* the same with an edge id unknown to the network
C5_WitnessUnknownEdge ==
    /\ LastRowTimed
    /\ \E i, k \in 1..Len(path_edges) :
          /\ EdgeLen(id2len, path_edges[i]) > 0
          /\ path_edges[k] \notin DOMAIN id2len
          /\ path_edges[i] \in DOMAIN time_sum
          /\ path_edges[k] \in DOMAIN freq
          /\ path_edges[k] \notin DOMAIN time_sum
          /\ path_edges[k] \notin DOMAIN time_count

--------------------------------------------------------------------------
(* C6 *)

\* the row of trip 0 (3 fixes) matched to the path of edge 1 (100 m) and
\* edge 12 (300 m)
C6_Scenario(r, lens) ==
    /\ r.id = Some(0)
    /\ TrainFixes[1] = 3
    /\ parse_edge_seq(r.cpath) = <<1, 12>>
    /\ DOMAIN lens = {1, 12}
    /\ lens[1] = 100 /\ lens[12] = 300

\* C6: length-proportional attribution end to end.  A trip with n >= 2
\* fixes sampled every 15 s has duration (n - 1) * 15 and no other trip has
\* one; a row of such a trip adds duration * l / (total path length) for
\* each positive-length occurrence; 3 fixes with the path of lengths 100
\* and 300 add exactly 7.5 s and 22.5 s and 1 to each time_count.
C6_ProportionalEndToEnd ==
    [][ /\ \A i \in 0..(Len(TrainFixes) - 1) :
              IF TrainFixes[i + 1] >= 2
              THEN i \in DOMAIN id2time
                   /\ id2time[i] = (TrainFixes[i + 1] - 1) * 15
              ELSE i \notin DOMAIN id2time
        /\ DOMAIN id2time \subseteq 0..(Len(TrainFixes) - 1)
        /\ (RowStep /\ path_edges' # <<>> /\ NewRow.id # None
            /\ Val(NewRow.id) \in DOMAIN id2time
            /\ PathLength(id2len, path_edges') > 0)
           => \A e \in KeysOf(time_sum, time_sum') :
                 RatSub(DictGet(time_sum', e, RatInt(0)),
                        DictGet(time_sum, e, RatInt(0)))
                   = ShareOf(id2len, path_edges',
                             PosOccurrences(id2len, path_edges', e),
                             id2time[Val(NewRow.id)],
                             PathLength(id2len, path_edges'))
        /\ (RowStep /\ C6_Scenario(NewRow, id2len))
           => /\ RatSub(time_sum'[1], DictGet(time_sum, 1, RatInt(0))) = Rat(15, 2)
              /\ RatSub(time_sum'[12], DictGet(time_sum, 12, RatInt(0))) = Rat(45, 2)
              /\ time_count'[1] = DictGet(time_count, 1, 0) + 1
              /\ time_count'[12] = DictGet(time_count, 12, 0) + 1 ]_vars

\* the scenario as the first row: 7.5 s and 22.5 s, one attribution each
C6_Witness ==
    /\ nrows = 1
    /\ row # None
    /\ C6_Scenario(LastRow, id2len)
    /\ total_time = Some(30)
    /\ total_len = Some(400)
    /\ time_sum = (1 :> Rat(15, 2) @@ 12 :> Rat(45, 2))
    /\ time_count = (1 :> 1 @@ 12 :> 1)

\* the scenario as the second row, after a row of the 15 s trip on edge 1
C6_WitnessSecondRow ==
    /\ nrows = 2
    /\ row # None
    /\ C6_Scenario(LastRow, id2len)
    /\ time_sum = (1 :> Rat(45, 2) @@ 12 :> Rat(45, 2))
    /\ time_count = (1 :> 2 @@ 12 :> 1)

--------------------------------------------------------------------------
(* task6: what the claims talk about *)

\* the loop has analysed a row: its record is the last of results
Analysed == entry # None /\ Len(results) >= 1
LastResult == results[Len(results)]
\* the geometry the last row resolved to
LastGeom == Val(matched_geom)
\* the last call of calculate_matching_quality got past the early return
LastScored == Analysed /\ locals # None
LastLocals == Val(locals)

QualityClasses == {"Excellent", "Good", "Fair", "Poor"}

--------------------------------------------------------------------------
(* C7 *)

\* C7: the quality_score of every record calculate_matching_quality returns
\* lies in [0, 1], whatever the fixes (none, some, some with the 999
\* fallback distance) and the geometry (none, a line, n >= 1 components).
C7_ScoreInUnitInterval ==
    /\ \A i \in 1..Len(results) :
          /\ RatLe(RatInt(0), results[i].quality_score)
          /\ RatLe(results[i].quality_score, RatInt(1))
    /\ LastScored =>
          /\ RatLe(RatInt(0), LastLocals.quality_score)
          /\ RatLe(LastLocals.quality_score, RatInt(1))

\* a trip scored past the early return with a failed distance computation
\* against a fragmented geometry
C7_Witness ==
    /\ LastScored
    /\ \E i \in 1..Len(gps_points) : gps_points[i] = None
    /\ LastGeom.kind = "MultiLineString"
    /\ LastGeom.n >= 2
    /\ RatLe(RatInt(999), LastResult.max_distance)
    /\ RatLt(RatInt(0), LastResult.quality_score)
    /\ RatLt(LastResult.quality_score, RatInt(1))

\* the ends of the interval: a trip scoring exactly 1, a trip scoring 0
C7_WitnessOne ==
    LastScored /\ LastResult.quality_score = RatInt(1)

C7_WitnessZero ==
    Analysed /\ LastResult.quality_score = RatInt(0)

--------------------------------------------------------------------------
(* C8 *)

\* C8 as stated: exactly one class; 0.8 is Excellent, the Good threshold is
\* Good, 0.4 is Fair and anything below 0.4 is Poor, for every threshold.
C8_AsStated ==
    \A i \in 1..Len(results) :
        LET q == results[i].quality_score
            c == results[i].quality_class
        IN  /\ c \in QualityClasses
            /\ q = Rat(8, 10) => c = "Excellent"
            /\ q = threshold => c = "Good"
            /\ q = Rat(4, 10) => c = "Fair"
            /\ RatLt(q, Rat(4, 10)) => c = "Poor"

\* the four classes as ranges of the score q under the Good threshold t
InExcellent(q, t) == RatLe(Rat(8, 10), q)
InGood(q, t) == RatLt(q, Rat(8, 10)) /\ RatLe(t, q)
InFair(q, t) == RatLt(q, Rat(8, 10)) /\ RatLt(q, t) /\ RatLe(Rat(4, 10), q)
InPoor(q, t) == RatLt(q, Rat(8, 10)) /\ RatLt(q, t) /\ RatLt(q, Rat(4, 10))

\* C8 (amended): for every score and every Good threshold exactly one of
\* Excellent, Good, Fair, Poor is assigned, by the tests >= 0.8, >= threshold,
\* >= 0.4 taken in this order; 0.8 is Excellent; a score equal to the
\* threshold is Good when the threshold is below 0.8; 0.4 is Fair when the
\* threshold is above 0.4; a score below 0.4 is Poor when it is also below
\* the threshold.
C8_ClassificationPartition ==
    \A i \in 1..Len(results) :
        LET q == results[i].quality_score
            c == results[i].quality_class
            t == threshold
        IN  /\ c \in QualityClasses
            /\ Cardinality({k \in 1..4 :
                   \/ k = 1 /\ InExcellent(q, t)
                   \/ k = 2 /\ InGood(q, t)
                   \/ k = 3 /\ InFair(q, t)
                   \/ k = 4 /\ InPoor(q, t)}) = 1
            /\ (c = "Excellent") = InExcellent(q, t)
            /\ (c = "Good") = InGood(q, t)
            /\ (c = "Fair") = InFair(q, t)
            /\ (c = "Poor") = InPoor(q, t)
            /\ q = Rat(8, 10) => c = "Excellent"
            /\ (q = t /\ RatLt(t, Rat(8, 10))) => c = "Good"
            /\ (q = Rat(4, 10) /\ RatLt(Rat(4, 10), t)) => c = "Fair"
            /\ (RatLt(q, Rat(4, 10)) /\ RatLt(q, t)) => c = "Poor"

\* default threshold: a score equal to it is Good
C8_Witness ==
    /\ Analysed
    /\ threshold = Rat(6, 10)
    /\ LastResult.quality_score = Rat(6, 10)
    /\ LastResult.quality_class = "Good"

\* default threshold: a score of 0.4 is Fair
C8_WitnessFair ==
    /\ Analysed
    /\ threshold = Rat(6, 10)
    /\ LastResult.quality_score = Rat(4, 10)
    /\ LastResult.quality_class = "Fair"

\* default threshold: a score of 0.8 is Excellent
C8_WitnessExcellent ==
    /\ Analysed
    /\ threshold = Rat(6, 10)
    /\ LastResult.quality_score = Rat(8, 10)
    /\ LastResult.quality_class = "Excellent"

\* default threshold: a score below 0.4, and not the worst-case one, is Poor
C8_WitnessPoor ==
    /\ LastScored
    /\ threshold = Rat(6, 10)
    /\ RatLt(LastResult.quality_score, Rat(4, 10))
    /\ LastResult.quality_class = "Poor"

\* a threshold above 0.8: a score equal to it is Excellent, not Good
C8_WitnessHighThreshold ==
    /\ Analysed
    /\ threshold = Rat(9, 10)
    /\ LastResult.quality_score = Rat(9, 10)
    /\ LastResult.quality_class = "Excellent"

\* a threshold below 0.4: a score of 0.4 is Good, not Fair
C8_WitnessLowThreshold ==
    /\ Analysed
    /\ threshold = Rat(3, 10)
    /\ LastResult.quality_score = Rat(4, 10)
    /\ LastResult.quality_class = "Good"

--------------------------------------------------------------------------
(* C9 *)

\* the worst-case record
IsSentinel(r) ==
    /\ r.avg_distance = RatInt(999)
    /\ r.max_distance = RatInt(999)
    /\ r.coverage = RatInt(0)
    /\ r.continuity = RatInt(0)
    /\ r.quality_score = RatInt(0)

\* C9: when the matched geometry is 'no geometry' or the fix list is empty,
\* the trip gets the record avg_distance = max_distance = 999, coverage =
\* continuity = quality_score = 0, appended to the results like any other;
\* for every Good threshold > 0 it is classified Poor and is in the poor
\* subset.
C9_SentinelRecord ==
    (entry # None /\ (LastGeom = NoGeom \/ gps_points = <<>>))
    => /\ Len(results) >= 1
       /\ LastResult = Val(entry)
       /\ IsSentinel(LastResult)
       /\ LastResult.num_gps_points = Len(gps_points)
       /\ RatLt(RatInt(0), threshold)
          => LastResult.quality_class = "Poor" /\ LastResult.is_poor

\* a trip with fixes and no geometry, then a trip with a geometry and no
\* fixes: two worst-case records, the batch having gone on after the first
C9_Witness ==
    /\ Len(results) = 2
    /\ IsSentinel(results[1])
    /\ results[1].num_gps_points > 0
    /\ entry # None
    /\ gps_points = <<>>
    /\ LastGeom # NoGeom
    /\ IsSentinel(LastResult)
    /\ RatLt(RatInt(0), threshold)
    /\ LastResult.quality_class = "Poor"
    /\ LastResult.is_poor

\* the batch goes on after a worst-case record with a trip that is scored
C9_WitnessGoesOn ==
    /\ Len(results) = 2
    /\ IsSentinel(results[1])
    /\ LastScored
    /\ ~IsSentinel(LastResult)

\* with the threshold 0 the worst-case record is not in the poor subset
C9_WitnessThresholdZero ==
    /\ Analysed
    /\ threshold = RatInt(0)
    /\ IsSentinel(LastResult)
    /\ ~LastResult.is_poor

--------------------------------------------------------------------------
(* C10 *)

\* C10: continuity is 1 for a single line and 1/n for a geometry of n
\* components; quality_score is 0.5 * distance_score + 0.4 * coverage plus
\* the term 0.1 * continuity; with 4 components the returned continuity is
\* 0.25, the term is 0.025, and the returned score is at most 0.925.
C10_Continuity ==
    LastScored =>
        LET l == LastLocals
            g == LastGeom
        IN  /\ g.kind = "LineString" => l.continuity = RatInt(1)
            /\ g.kind = "MultiLineString" => l.continuity = Rat(1, g.n)
            /\ RatSub(l.quality_score,
                      RatAdd(RatMul(Rat(1, 2), l.distance_score),
                             RatMul(Rat(2, 5), l.coverage)))
                 = RatMul(Rat(1, 10), l.continuity)
            /\ (g.kind = "MultiLineString" /\ g.n = 4)
               => /\ LastResult.continuity = Rat(25, 100)
                  /\ RatSub(l.quality_score,
                            RatAdd(RatMul(Rat(1, 2), l.distance_score),
                                   RatMul(Rat(2, 5), l.coverage)))
                       = Rat(25, 1000)
                  /\ RatLe(LastResult.quality_score, Rat(925, 1000))

\* 4 components with every fix on the geometry: the score is 0.925
C10_Witness ==
    /\ LastScored
    /\ LastGeom = MultiLineString(4)
    /\ LastLocals.distance_score = RatInt(1)
    /\ LastLocals.coverage = RatInt(1)
    /\ LastResult.continuity = Rat(25, 100)
    /\ LastResult.quality_score = Rat(925, 1000)

\* 4 components with every fix far from the geometry: the term 0.025 alone
C10_WitnessFar ==
    /\ LastScored
    /\ LastGeom = MultiLineString(4)
    /\ LastLocals.distance_score = RatInt(0)
    /\ LastLocals.coverage = RatInt(0)
    /\ LastLocals.quality_score = Rat(25, 1000)

\* a single-component MultiLineString and a LineString have continuity 1
C10_WitnessSingle ==
    /\ LastScored
    /\ LastGeom = MultiLineString(1)
    /\ LastResult.continuity = RatInt(1)

--------------------------------------------------------------------------
(* C11 *)

\* every fix of the last trip has a distance, and it is at most d metres
FixesWithin(d) ==
    /\ gps_points # <<>>
    /\ \A i \in 1..Len(gps_points) :
          gps_points[i] # None /\ Val(gps_points[i]) <= d

\* the geometry of the last row has a single component
SingleComponent == LastGeom = LineString \/ LastGeom = MultiLineString(1)

\* C11: close single-component matches are Excellent.  When every fix of a
\* non-empty fix list is at most 10 m from a single-component geometry,
\* coverage = 1, continuity = 1, distance_score >= 0.9, quality_score >= 0.8
\* (before and after rounding) and the class is Excellent, whatever the Good
\* threshold.
C11_CloseIsExcellent ==
    (Analysed /\ FixesWithin(10) /\ SingleComponent)
    => /\ locals # None
       /\ LastLocals.coverage = RatInt(1)
       /\ LastLocals.continuity = RatInt(1)
       /\ RatLe(Rat(9, 10), LastLocals.distance_score)
       /\ RatLe(Rat(8, 10), LastLocals.quality_score)
       /\ LastResult.coverage = RatInt(1)
       /\ LastResult.continuity = RatInt(1)
       /\ RatLe(Rat(8, 10), LastResult.quality_score)
       /\ LastResult.quality_class = "Excellent"

\* every fix exactly 10 m from a line, under a Good threshold above 0.8:
\* distance_score is 0.9, the score 0.95
C11_Witness ==
    /\ Analysed
    /\ Len(gps_points) >= 2
    /\ \A i \in 1..Len(gps_points) : gps_points[i] = Some(10)
    /\ LastGeom = LineString
    /\ threshold = Rat(9, 10)
    /\ LastLocals.distance_score = Rat(9, 10)
    /\ LastResult.quality_score = Rat(95, 100)
    /\ LastResult.quality_class = "Excellent"

\* fixes at 0 m and 10 m from a MultiLineString of one component
C11_WitnessMixed ==
    /\ Analysed
    /\ FixesWithin(10)
    /\ \E i, j \in 1..Len(gps_points) : gps_points[i] # gps_points[j]
    /\ LastGeom = MultiLineString(1)
    /\ LastResult.quality_class = "Excellent"

--------------------------------------------------------------------------
(* C12 *)

IsDigitAt(s, i) == i \in 1..Len(s) /\ s[i] \in Digits
\* the positions where a maximal run of digits starts
RunStarts(s) == {i \in 1..Len(s) : IsDigitAt(s, i) /\ ~IsDigitAt(s, i - 1)}
\* the position where the maximal run that starts at i ends
RunStop(s, i) ==
    CHOOSE j \in i..Len(s) :
        (\A k \in i..j : IsDigitAt(s, k)) /\ ~IsDigitAt(s, j + 1)

RECURSIVE DecimalValue(_, _, _)
\* the number the digits s[i..j] write
DecimalValue(s, i, j) ==
    IF i > j THEN 0
    ELSE DigitVal(s[i]) * Pow10(j - i) + DecimalValue(s, i + 1, j)

\* the k-th run start from the left
NthStart(s, k) ==
    CHOOSE i \in RunStarts(s) : Cardinality({x \in RunStarts(s) : x <= i}) = k

\* the maximal runs of digits of s from left to right, each negated when a
\* minus sign stands right before it
RunsOf(s) ==
    [k \in 1..Cardinality(RunStarts(s)) |->
        LET i == NthStart(s, k)
            v == DecimalValue(s, i, RunStop(s, i))
        IN  IF i > 1 /\ s[i - 1] = "-" THEN -v ELSE v]

\* C12: path decoding.  The list parse_edge_seq returns holds every maximal
\* run of digits of the field, negated when a minus sign precedes it, from
\* left to right, none skipped, none reordered, duplicates kept;
\* '[12, 7, 7, 3]' decodes to [12, 7, 7, 3]; an empty or whitespace-only
\* field and a value that is no text decode to the empty list.
C12_PathDecoding ==
    field # None =>
        LET a == Val(field)
        IN  /\ a.is_str => decoded = RunsOf(a.chars)
            /\ ~a.is_str => decoded = <<>>
            /\ (a.is_str /\ IsBlank(a.chars)) => decoded = <<>>
            /\ a = Text(BracketedField) => decoded = <<12, 7, 7, 3>>

\* the call on '[12, 7, 7, 3]'
C12_Witness ==
    /\ field = Some(Text(BracketedField))
    /\ decoded = <<12, 7, 7, 3>>

\* a run of two digits, then a run with a minus sign before it
C12_WitnessSigned ==
    /\ field = Some(Text(<<"1", "7", "-", "7">>))
    /\ decoded = <<17, -7>>

\* a value that is no text, and a whitespace-only text
C12_WitnessNonText ==
    field = Some(NonText) /\ decoded = <<>>

C12_WitnessBlank ==
    field = Some(Text(<<"\t", "\n">>)) /\ decoded = <<>>

--------------------------------------------------------------------------
(* C13 *)

\* parse_geom_safe has been called
Resolved == wkt_text # None
ResolvedArg == Val(wkt_text)

\* s without the tokens of chars at its two ends
Trimmed(s, chars) ==
    LET keep == {i \in 1..Len(s) : s[i] \notin chars}
    IN  IF keep = {} THEN <<>>
        ELSE SubSeq(s, CHOOSE i \in keep : \A j \in keep : i <= j,
                       CHOOSE i \in keep : \A j \in keep : j <= i)

\* the text without the blanks around it and the quotes around that
Unwrapped(s) == Trimmed(Trimmed(Trimmed(s, {" "}), {"\""}), {"'"})

\* the text ends with the word EMPTY, in either case
SaysEmpty(s) == s # <<>> /\ s[Len(s)] \in {"EMPTY", "empty"}

\* position j holds a comma that only blanks separate from a ")"
CommaBeforeParen(s, j) ==
    /\ s[j] = ","
    /\ \E m \in (j + 1)..Len(s) :
          /\ s[m] = ")"
          /\ \A k \in (j + 1)..(m - 1) : s[k] = " "

\* the positions of such commas and of the blanks that follow them
Dropped(s) ==
    {i \in 1..Len(s) :
        \E j \in 1..i : /\ CommaBeforeParen(s, j)
                        /\ \A k \in (j + 1)..i : s[k] = " "}

RECURSIVE Without(_, _, _)
\* s from position i on, without the positions in drop
Without(s, drop, i) ==
    IF i > Len(s) THEN <<>>
    ELSE IF i \in drop THEN Without(s, drop, i + 1)
    ELSE <<s[i]>> \o Without(s, drop, i + 1)

\* the text with every comma, and the blanks after it, directly before a
\* ")" removed
Repaired(s) == Without(s, Dropped(s), 1)

MalformedLine ==
    <<"LINESTRING", "(", "0 0", ",", " ", "1 1", ",", " ", ")">>
RepairedLine ==
    <<"LINESTRING", "(", "0 0", ",", " ", "1 1", ")">>

C13_WitnessEmpty ==
    /\ Resolved
    /\ ResolvedArg = Text(<<"\"", "LINESTRING", " ", "EMPTY", "\"">>)
    /\ resolved = Some(NoGeom)
    /\ loads_calls = <<>>

\* a text the repair does not mend: two parses, then 'no geometry'
C13_WitnessRetryFails ==
    /\ Resolved
    /\ Len(loads_calls) = 2
    /\ loads_calls[2] # loads_calls[1]
    /\ resolved = Some(NoGeom)

\* post_stmatch_view.py makes no second parse of an unchanged text
C13_WitnessNoRetry ==
    /\ Resolved
    /\ resolver = "post_stmatch_view"
    /\ Len(loads_calls) = 1
    /\ resolved = Some(NoGeom)

\* a value that is no text
C13_WitnessNonText ==
    /\ Resolved
    /\ ~ResolvedArg.is_str
    /\ resolved = Some(NoGeom)

\* a blank between the word EMPTY and the closing quote: the text does not
\* end with EMPTY once unwrapped, is parsed, and resolves to an empty
\* LineString object
C13_WitnessPaddedEmpty ==
    /\ Resolved
    /\ ResolvedArg = Text(<<"\"", "LINESTRING", " ", "EMPTY", " ", "\"">>)
    /\ Len(loads_calls) = 1
    /\ resolved = Some(EmptyLineString)

--------------------------------------------------------------------------
(* the runs of main: what the claims talk about *)

\* the files written so far
Written == {io[i].file : i \in {j \in 1..Len(io) : io[j].op = "write"}}
\* the input files read so far
ReadSoFar == {io[i].file : i \in {j \in 1..Len(io) : io[j].op = "read"}}

\* the run is over: main returned, or an exception or SystemExit left it
Ended == pc \in {"done", "raised", "returned"}

\* the run has an input file that is missing or unreadable, or a matched
\* table without a path field
RunLevelError ==
    \/ fault # "none"
    \/ prog = "task5" /\ columns \cap {"cpath", "opath"} = {}

--------------------------------------------------------------------------
(* C14 *)

\* the rows of a ranking
RowsIn(df) == {df[i] : i \in 1..Len(df)}

\* C14 as stated: each ranking has at most K rows, is in descending order
\* of its value, holds no row whose value is smaller than that of an omitted
\* edge, and among equal values runs by ascending edge identifier, a kept
\* row tied with an omitted one having the smaller identifier.
C14_AsStated ==
    /\ freq_df # None =>
          LET df == Val(freq_df)
              omitted == FreqRows(freq) \ RowsIn(df)
          IN  /\ Len(df) <= topk
              /\ \A i, j \in 1..Len(df) :
                    i < j => /\ df[i].freq >= df[j].freq
                             /\ df[i].freq = df[j].freq => df[i].id < df[j].id
              /\ \A i \in 1..Len(df) : \A x \in omitted :
                    /\ df[i].freq >= x.freq
                    /\ df[i].freq = x.freq => df[i].id < x.id
    /\ avg_df # None =>
          LET df == Val(avg_df)
              omitted == AvgRows(time_sum, time_count) \ RowsIn(df)
          IN  /\ Len(df) <= topk
              /\ \A i, j \in 1..Len(df) :
                    i < j => /\ RatLe(df[j].avg_time_s, df[i].avg_time_s)
                             /\ df[i].avg_time_s = df[j].avg_time_s
                                => df[i].id < df[j].id
              /\ \A i \in 1..Len(df) : \A x \in omitted :
                    /\ RatLe(x.avg_time_s, df[i].avg_time_s)
                    /\ df[i].avg_time_s = x.avg_time_s => df[i].id < x.id

--------------------------------------------------------------------------
(* C15 *)

\* C15 as stated: a run whose input files are readable and whose matched
\* table has a path field is never left by an exception, whatever its rows:
\* it gets through the loop to the step that writes the output tables.
C15_AsStated ==
    ~RunLevelError => pc # "raised"

--------------------------------------------------------------------------
(* C16 *)

\* the files a run of the program writes when it runs to its end
ExpectedOutputs ==
    IF prog = "task5" THEN {Task5Outputs[n] : n \in 1..4}
    ELSE {"quality_analysis.csv"}
         \cup (IF Len(poor_matches) > 0 THEN {"poor_matches.csv"} ELSE {})

\* the input files of the program
InputFiles ==
    IF prog = "task5" THEN {"edges", "matched", "train"}
    ELSE {"matched", "train"}

C16_WitnessNoPathField ==
    /\ prog = "task5"
    /\ fault = "none"
    /\ columns = {"id", "mgeom"}
    /\ pc = "raised"
    /\ Written = {}

\* task6 returns when a file does not exist
C16_WitnessReturned ==
    /\ prog = "task6"
    /\ fault = "train_missing"
    /\ pc = "returned"
    /\ io = <<>>

\* runs that get to their end with every output file written
C16_WitnessDone ==
    /\ prog = "task5"
    /\ pc = "done"
    /\ Len(io) = 7
    /\ Written = ExpectedOutputs

C16_WitnessDonePoor ==
    /\ prog = "task6"
    /\ pc = "done"
    /\ Written = {"quality_analysis.csv", "poor_matches.csv"}

\* a run left by the KeyError of the ranking step has written nothing
C16_WitnessRankingRaises ==
    /\ prog = "task5"
    /\ ~RunLevelError
    /\ pc = "raised"
    /\ nrows > 0
    /\ Written = {}

--------------------------------------------------------------------------
(* C17 *)

\* identify_poor_matches has computed its summary
Summarised == prog = "task6" /\ report # None
\* the positions in results of the trips below the threshold
BelowThreshold ==
    {i \in 1..Len(results) : RatLt(results[i].quality_score, threshold)}
\* the trip ids of a table
TripIds(df) == {df[i].trip_id : i \in 1..Len(df)}

HighDistance(r) == RatLt(RatInt(100), r.avg_distance)
LowCoverage(r) == RatLt(r.coverage, Rat(3, 10))
Fragmented(r) == RatLt(r.continuity, Rat(1, 2))
\* the number of the three causes the trip r is counted under
Causes(r) ==
    (IF HighDistance(r) THEN 1 ELSE 0) + (IF LowCoverage(r) THEN 1 ELSE 0)
    + (IF Fragmented(r) THEN 1 ELSE 0)

\* C17: poor_matches holds exactly the trips whose quality_score is below
\* the threshold, in the order of the results; when it is not empty the
\* summary counts under 'high distance' its trips with avg_distance > 100,
\* under 'low coverage' those with coverage < 0.3, under 'fragmented' those
\* with continuity < 0.5, each count on its own.
C17_PoorSubset ==
    Summarised =>
        /\ TripIds(poor_matches) = {results[i].trip_id : i \in BelowThreshold}
        /\ Len(poor_matches) = Cardinality(BelowThreshold)
        /\ \A i \in 1..Len(poor_matches) :
              /\ \E j \in BelowThreshold : poor_matches[i] = results[j]
              /\ poor_matches[i].is_poor
        /\ \A i \in 1..Len(results) :
              results[i].is_poor = (i \in BelowThreshold)
        /\ Val(report).poor = Cardinality(BelowThreshold)
        /\ (Val(report).issues = None) = (BelowThreshold = {})
        /\ BelowThreshold # {} =>
              LET issues == Val(Val(report).issues)
              IN  /\ issues.high_dist =
                        Cardinality({i \in BelowThreshold : HighDistance(results[i])})
                  /\ issues.low_cov =
                        Cardinality({i \in BelowThreshold : LowCoverage(results[i])})
                  /\ issues.fragmented =
                        Cardinality({i \in BelowThreshold : Fragmented(results[i])})

\* a poor trip under no cause beside one under all three: the counts are 1
C17_Witness ==
    /\ Summarised
    /\ Len(poor_matches) = 2
    /\ Causes(poor_matches[1]) = 0
    /\ Causes(poor_matches[2]) = 3
    /\ Val(Val(report).issues) =
          [high_dist |-> 1, low_cov |-> 1, fragmented |-> 1]

\* a poor trip under one cause only
C17_WitnessOne ==
    /\ Summarised
    /\ \E i \in 1..Len(poor_matches) :
          /\ Causes(poor_matches[i]) = 1
          /\ Fragmented(poor_matches[i])

\* a poor trip under two causes
C17_WitnessTwo ==
    /\ Summarised
    /\ \E i \in 1..Len(poor_matches) :
          /\ Causes(poor_matches[i]) = 2
          /\ ~Fragmented(poor_matches[i])

\* a trip that is not poor beside one that is; no poor trip at all
C17_WitnessMixed ==
    /\ Summarised
    /\ Len(results) = 2
    /\ Len(poor_matches) = 1
    /\ poor_matches[1] = results[2]

C17_WitnessNoPoor ==
    /\ Summarised
    /\ poor_matches = <<>>
    /\ Val(report).issues = None

--------------------------------------------------------------------------
(* C19 *)

\* the positions in results of the trips of class c
OfClass(c) == {i \in 1..Len(results) : results[i].quality_class = c}

\* C19 as stated: the four counts of the quality distribution sum to the
\* number of trips analysed; the trips reported as Poor are the trips of
\* class Poor, and no trip of class Excellent, Good or Fair is in the poor
\* subset.
C19_AsStated ==
    Summarised =>
        LET rep == Val(report)
        IN  /\ rep.excellent + rep.good + rep.fair + rep.poor = rep.total
            /\ rep.total = Len(results)
            /\ TripIds(poor_matches) = {results[i].trip_id : i \in OfClass("Poor")}
            /\ \A i \in 1..Len(results) :
                  results[i].quality_class \in {"Excellent", "Good", "Fair"}
                  => ~results[i].is_poor

--------------------------------------------------------------------------
(* C18 *)

\* the row r gets time attributed under the network lens: its path is not
\* empty and of positive length, its trip has a duration
TimedRow(lens, r) ==
    LET p == parse_edge_seq(r.cpath)
    IN  p # <<>> /\ TripDuration(r) # None /\ PathLength(lens, p) > 0

RECURSIVE ExpectedCount(_, _, _)
\* occurrences of positive length of edge e over the timed rows
ExpectedCount(rows, lens, e) ==
    IF rows = <<>> THEN 0
    ELSE (IF TimedRow(lens, rows[1])
          THEN Cardinality(PosOccurrences(lens, parse_edge_seq(rows[1].cpath), e))
          ELSE 0)
         + ExpectedCount(Tail(rows), lens, e)

RECURSIVE ExpectedTime(_, _, _)
\* the time the timed rows attribute to edge e: for each of its occurrences
\* of positive length, the trip's duration times length / path length
ExpectedTime(rows, lens, e) ==
    IF rows = <<>> THEN RatInt(0)
    ELSE LET p == parse_edge_seq(rows[1].cpath)
         IN  RatAdd(IF TimedRow(lens, rows[1])
                    THEN ShareOf(lens, p, PosOccurrences(lens, p, e),
                                 Val(TripDuration(rows[1])), PathLength(lens, p))
                    ELSE RatInt(0),
                    ExpectedTime(Tail(rows), lens, e))

\* f, ts and tc are what a run over the table rows, and nothing else, ends
\* with
RunOver(rows, lens, f, ts, tc) ==
    \A e \in EdgeIds \cup DOMAIN f \cup DOMAIN ts \cup DOMAIN tc :
        /\ IF TotalOccurrences(rows, e) = 0 THEN e \notin DOMAIN f
           ELSE e \in DOMAIN f /\ f[e] = TotalOccurrences(rows, e)
        /\ IF ExpectedCount(rows, lens, e) = 0
           THEN e \notin DOMAIN ts /\ e \notin DOMAIN tc
           ELSE /\ e \in DOMAIN ts /\ e \in DOMAIN tc
                /\ tc[e] = ExpectedCount(rows, lens, e)
                /\ ts[e] = ExpectedTime(rows, lens, e)

\* C18: every iteration of the loop leaves freq, time_sum and time_count
\* equal to what a run over the rows iterated so far, and no other, ends
\* with; no key of freq, time_sum or time_count is lost and no value
\* decreases from one iteration to the next, and freq[e] >= 0.
C18_AbortSafe ==
    [][RowStep =>
        /\ RunOver(mm', id2len, freq', time_sum', time_count')
        /\ \A e \in DOMAIN freq :
              e \in DOMAIN freq' /\ freq'[e] >= freq[e]
        /\ \A e \in DOMAIN time_sum :
              e \in DOMAIN time_sum' /\ RatLe(time_sum[e], time_sum'[e])
        /\ \A e \in DOMAIN time_count :
              e \in DOMAIN time_count' /\ time_count'[e] >= time_count[e]
        /\ \A e \in DOMAIN freq' : freq'[e] >= 0]_vars

\* the loop stopped after two timed rows that share an edge: the edge holds
\* the time of both, more than after the first row alone
C18_Witness ==
    /\ Len(mm) = 2
    /\ TimedRow(id2len, mm[1])
    /\ TimedRow(id2len, mm[2])
    /\ \E e \in DOMAIN time_sum :
          /\ ExpectedCount(<<mm[1]>>, id2len, e) >= 1
          /\ ExpectedCount(<<mm[2]>>, id2len, e) >= 1
          /\ RatLt(ExpectedTime(<<mm[1]>>, id2len, e), time_sum[e])
          /\ time_sum[e] = ExpectedTime(mm, id2len, e)

\* the loop stopped after one row of a table
C18_WitnessPrefix ==
    /\ Len(mm) = 1
    /\ TimedRow(id2len, mm[1])
    /\ RunOver(mm, id2len, freq, time_sum, time_count)
    /\ freq # EmptyDict

--------------------------------------------------------------------------
(* C20 *)

\* C20: in every state of the loop time_sum and time_count have the same
\* keys, every time_count[e] is at least 1 and at most freq[e]; the rows of
\* the average-time table are the keys of time_sum, each row divides
\* time_sum[e] by a count >= 1, and each listed edge has an occurrence of
\* positive length in a timed row.
C20_WellFormed ==
    /\ DOMAIN time_sum = DOMAIN time_count
    /\ \A e \in DOMAIN time_count :
          /\ time_count[e] >= 1
          /\ e \in DOMAIN freq
          /\ time_count[e] <= freq[e]
    /\ {r.id : r \in AvgRows(time_sum, time_count)} = DOMAIN time_sum
    /\ \A r \in AvgRows(time_sum, time_count) :
          /\ time_count[r.id] >= 1
          /\ RatMul(r.avg_time_s, RatInt(time_count[r.id])) = time_sum[r.id]
          /\ \E i \in 1..Len(mm) :
                /\ TimedRow(id2len, mm[i])
                /\ PosOccurrences(id2len, parse_edge_seq(mm[i].cpath), r.id) # {}

\* an edge timed on fewer occurrences than it is counted, beside an edge
\* that is counted and never timed
C20_Witness ==
    /\ Len(mm) = 2
    /\ \E e \in DOMAIN time_count :
          /\ time_count[e] >= 1
          /\ time_count[e] < freq[e]
    /\ \E e \in DOMAIN freq : e \notin DOMAIN time_count
    /\ AvgRows(time_sum, time_count) # {}

\* no row has been timed: the average-time table has no row
C20_WitnessEmpty ==
    /\ Len(mm) = 2
    /\ freq # EmptyDict
    /\ time_sum = EmptyDict
    /\ AvgRows(time_sum, time_count) = {}

--------------------------------------------------------------------------
(* C21 *)

RECURSIVE MaxDuration(_)
\* the largest duration among the trips of the rows, 0 when none has one
MaxDuration(rows) ==
    IF rows = <<>> THEN 0
    ELSE LET rest == MaxDuration(Tail(rows))
             T == TripDuration(rows[1])
         IN  IF T # None /\ Val(T) > rest THEN Val(T) ELSE rest

\* the occurrences the iteration added to time_count of edge e
AddedCount(e) == DictGet(time_count', e, 0) - DictGet(time_count, e, 0)
\* the time the iteration added to time_sum of edge e
AddedTime(e) ==
    RatSub(DictGet(time_sum', e, RatInt(0)), DictGet(time_sum, e, RatInt(0)))

\* C21: the occurrences of an edge in one row have one length, hence one dt,
\* which is the time the iteration adds to the edge divided by the number of
\* occurrences it adds: that dt is > 0 and <= the duration T of the row's
\* trip.  After every iteration, for every edge with time_count > 0, the
\* average time_sum[e] / time_count[e] is > 0 and <= the largest duration
\* among the trips of the rows iterated so far.
C21_BoundedByDuration ==
    [][RowStep =>
        /\ \A e \in EdgeIds \cup DOMAIN time_count' :
              AddedCount(e) > 0 =>
                 LET dt == RatDiv(AddedTime(e), RatInt(AddedCount(e)))
                 IN  /\ TripDuration(NewRow) # None
                     /\ RatLt(RatInt(0), dt)
                     /\ RatLe(dt, RatInt(Val(TripDuration(NewRow))))
        /\ \A e \in DOMAIN time_count' :
              time_count'[e] > 0 =>
                 LET avg == RatDiv(time_sum'[e], RatInt(time_count'[e]))
                 IN  /\ RatLt(RatInt(0), avg)
                     /\ RatLe(avg, RatInt(MaxDuration(mm')))]_vars

\* two timed trips of different durations over one edge: the average lies
\* strictly between 0 and the longer duration, and above the share the
\* shorter trip alone gives
C21_Witness ==
    /\ Len(mm) = 2
    /\ TimedRow(id2len, mm[1])
    /\ TimedRow(id2len, mm[2])
    /\ TripDuration(mm[1]) # TripDuration(mm[2])
    /\ \E e \in DOMAIN time_count :
          /\ time_count[e] >= 2
          /\ RatLt(RatInt(0), RatDiv(time_sum[e], RatInt(time_count[e])))
          /\ RatLt(RatDiv(time_sum[e], RatInt(time_count[e])),
                   RatInt(MaxDuration(mm)))

\* an occurrence that gets the whole duration: the only edge of positive
\* length of its path
C21_WitnessWhole ==
    /\ Len(mm) = 1
    /\ TimedRow(id2len, mm[1])
    /\ \E e \in DOMAIN time_count :
          /\ time_count[e] = 1
          /\ time_sum[e] = RatInt(Val(TripDuration(mm[1])))
          /\ time_sum[e] = RatInt(MaxDuration(mm))

====
